---- MODULE Spec2Model ----
(* Model of the change-detection and notification pipeline of the          *)
(* Ticketmaster monitor: SMSAlertService (app/alerts/sms.py),              *)
(* SnapshotComparator (app/monitor/diff.py) and TicketmasterMonitor        *)
(* (app/main.py) on top of the tables of app/storage/db.py.                *)
EXTENDS Integers, Sequences, FiniteSets, TLC

(* ------------------------------------------------------------------ *)
(* Bounds of the model                                                  *)
(* ------------------------------------------------------------------ *)
MaxTime == 5          \* the clock (minutes) stops advancing here
MaxTriggers == 2      \* firings of the trigger of the recurring job
MaxRuns == 2          \* runs of monitor_single_event in one behaviour
MaxSimulate == 2      \* direct --simulate-delta invocations
MaxFaults == 1        \* persistence operations that raise in one behaviour
MaxDigits == 16       \* digits in an address given to validate_phone_number
MaxSectors == 3       \* sector ids that two compared snapshots are made of
NumEvents == 2        \* configured events that are monitored

(* ------------------------------------------------------------------ *)
(* Program constants                                                    *)
(* ------------------------------------------------------------------ *)
ALERT_MESSAGE == "Hay cambios en la plataforma"
DEDUPLICATION_WINDOW_MINUTES == 5
MAX_INSTANCES_Two == 1 + 1
MAX_INSTANCES == 1
POLL_INTERVAL_MIN == 90
POLL_INTERVAL_MAX == 150
EVENTS == SubSeq(<<"pq23", "pq24", "pq25">>, 1, NumEvents)

\* Universe of recipient addresses (canonical form) and of sector ids.
\* The spellings given at the registration boundary are RegisterInputs.
PhoneUniverse == <<"+573001234567", "+573007654321">>
Sectors == {"sector_a1", "sector_b2"}
FakeNewSectors == {"sector_a1", "sector_b2"}

\* Outcomes of one call of the delivery transport (client.messages.create).
DeliverOutcomes == {"ok", "twilio", "error"}

\* Persistence operations that may raise inside one handler run.  A fault
\* named by a recipient address is a fault of that recipient's log write.
DbOps == {"dedup", "phones", "get_previous", "save_snapshot", "log_change",
          "update_timestamp", "register", "unregister"}
LogOps == {PhoneUniverse[i] : i \in 1..Len(PhoneUniverse)}
FaultSets(ops, budget) == {f \in SUBSET ops : Cardinality(f) <= budget}

VARIABLES
  clock,            \* datetime.utcnow(), in minutes
  configured,       \* SMSAlertService.client is not None
  dry_run,          \* TicketmasterMonitor.dry_run
  phone_numbers,    \* table phone_numbers: Seq of [phone, active]
  sms_logs,         \* table sms_logs: Seq of [phone, message, timestamp, success, error_message]
  snapshots,        \* table snapshots: Seq of [event_id, sectors, timestamp]
  change_logs,      \* table change_logs: Seq of [event_id, new_sectors, timestamp, sms_sent]
  last_checked,     \* events.last_checked per event
  running,          \* TicketmasterMonitor.running
  instances,        \* running instances of the job monitor_all_events
  triggers,         \* history: [fired, started, dropped] counts of the recurring job
  simulated,        \* number of --simulate-delta runs so far
  runs,             \* number of monitor_single_event runs so far
  faulted,          \* number of persistence operations that raised so far
  last_alert,       \* history: the last send_change_alert call
  last_cycle,       \* history: the last monitor_single_event call
  last_reg,         \* history: the last call of validate / register / unregister
  last_diff,        \* history: the last comparison of two snapshots
  last_parse,       \* history: the last call of normalize_sectors
  job               \* the recurring job: its interval and the delays it waited

vars == <<clock, configured, dry_run, phone_numbers, sms_logs, snapshots,
          change_logs, last_checked, running, instances, triggers, simulated,
          runs, faulted, last_alert, last_cycle, last_reg, last_diff,
          last_parse, job>>

(* ------------------------------------------------------------------ *)
(* Helpers                                                              *)
(* ------------------------------------------------------------------ *)
\* dict.get(key, default)
Get(d, k, default) == IF k \in DOMAIN d THEN d[k] ELSE default

Range(s) == {s[i] : i \in 1..Len(s)}

EventIds == Range(EVENTS)

\* Tables of recipients: one row per address (unique column), in the order
\* of registration, each active or deactivated.
RECURSIVE PhoneTablesFrom(_)
PhoneTablesFrom(i) ==
  IF i > Len(PhoneUniverse) THEN {<<>>}
  ELSE {<<[phone |-> PhoneUniverse[i], registered_at |-> 0, active |-> a]>> \o t :
          a \in BOOLEAN, t \in PhoneTablesFrom(i + 1)}
PhoneTables == PhoneTablesFrom(1)

(* ------------------------------------------------------------------ *)
(* What the properties observe of the tables                            *)
(* ------------------------------------------------------------------ *)
\* The recipients whose row has active = true, in table order.
ActiveRows == {i \in 1..Len(phone_numbers) : phone_numbers[i].active}
RECURSIVE ActiveFrom(_)
ActiveFrom(i) ==
  IF i > Len(phone_numbers) THEN <<>>
  ELSE (IF i \in ActiveRows THEN <<phone_numbers[i].phone>> ELSE <<>>)
       \o ActiveFrom(i + 1)
ActiveRecipients == ActiveFrom(1)

\* The log holds a successful row with the alert text whose age at time
\* now is less than the deduplication window.
RecentAlertRow(logs, now) ==
  \E i \in 1..Len(logs) :
     /\ logs[i].success
     /\ logs[i].message = "Hay cambios en la plataforma"
     /\ now - logs[i].timestamp < 5

(* ------------------------------------------------------------------ *)
(* SMSAlertService (app/alerts/sms.py)                                  *)
(* ------------------------------------------------------------------ *)
is_configured_Always == TRUE
is_configured == configured

\* One row of sms_logs; the timestamp column defaults to utcnow().
SMSLog(phone, message, success, error_message) ==
  [phone |-> phone, message |-> message, timestamp |-> clock,
   success |-> success, error_message |-> error_message]

\* Mutant: the row is written with success = True whatever happened.
_log_sms_attempt_AlwaysSuccess(logs, phone, message, success, error_message, faults) ==
  IF phone \in faults THEN logs
  ELSE Append(logs, [phone |-> phone, message |-> message, timestamp |-> clock,
                     success |-> TRUE, error_message |-> error_message])

\* _log_sms_attempt: adds the row and commits; an exception of the session
\* is swallowed and the row is lost.
_log_sms_attempt(logs, phone, message, success, error_message, faults) ==
  IF phone \in faults THEN logs
  ELSE Append(logs, SMSLog(phone, message, success, error_message))

\* Mutants: a window one minute shorter; the comparison with the cutoff
\* reversed; the gate switched off.
_should_skip_ShortWindow(logs, faults) ==
  IF "dedup" \in faults THEN FALSE
  ELSE \E i \in 1..Len(logs) :
          /\ logs[i].timestamp > clock - 4
          /\ logs[i].success = TRUE
          /\ logs[i].message = "Hay cambios en la plataforma"
_should_skip_Reversed(logs, faults) ==
  IF "dedup" \in faults THEN FALSE
  ELSE \E i \in 1..Len(logs) :
          /\ logs[i].timestamp < clock - 5
          /\ logs[i].success = TRUE
          /\ logs[i].message = "Hay cambios en la plataforma"
_should_skip_Never(logs, faults) == FALSE
\* Mutant: the text of the row is not compared.
_should_skip_AnyBody(logs, faults) ==
  IF "dedup" \in faults THEN FALSE
  ELSE \E i \in 1..Len(logs) :
          /\ logs[i].timestamp > clock - 5
          /\ logs[i].success = TRUE

\* _should_skip_due_to_deduplication: a successful row with the alert text
\* newer than the cutoff exists; an exception of the query gives False.
_should_skip_due_to_deduplication(logs, faults) ==
  IF "dedup" \in faults THEN FALSE
  ELSE LET cutoff_time == clock - DEDUPLICATION_WINDOW_MINUTES IN
       \E i \in 1..Len(logs) :
          /\ logs[i].timestamp > cutoff_time
          /\ logs[i].success = TRUE
          /\ logs[i].message = ALERT_MESSAGE

\* _get_active_phone_numbers: the addresses of the rows with active == True,
\* in table order; an exception of the query gives [].
IsActiveRow_Any(r) == TRUE
IsActiveRow(r) == r.active = TRUE
RECURSIVE PhonesOf(_)
PhonesOf(rows) ==
  IF rows = <<>> THEN <<>> ELSE <<Head(rows).phone>> \o PhonesOf(Tail(rows))
_get_active_phone_numbers(faults) ==
  IF "phones" \in faults THEN <<>>
  ELSE PhonesOf(SelectSeq(phone_numbers, IsActiveRow))

\* The answer of the transport for one address.
Outcome(deliver, phone) ==
  IF phone \in DOMAIN deliver THEN deliver[phone] ELSE "ok"

\* _send_sms_to_phone: one call of the transport, then the log write of the
\* branch taken; returns (success, error_message).
_send_sms_to_phone(logs, phone, message, outcome, faults) ==
  IF outcome = "ok"
  THEN [ret |-> <<TRUE, "None">>,
        logs |-> _log_sms_attempt(logs, phone, message, TRUE, "None", faults)]
  ELSE LET error_msg == IF outcome = "twilio" THEN "Twilio error"
                        ELSE "Unexpected error" IN
       [ret |-> <<FALSE, error_msg>>,
        logs |-> _log_sms_attempt(logs, phone, message, FALSE, error_msg, faults)]

\* Mutant: a failed delivery marks the whole batch as failed.
FanOutStep_FailureFailsBatch(acc, phone, dry, deliver, faults) ==
  IF dry
  THEN [results |-> [acc.results EXCEPT !.sent_count = @ + 1],
        logs |-> _log_sms_attempt(acc.logs, phone, ALERT_MESSAGE, TRUE, "None", faults),
        attempted |-> Append(acc.attempted, [phone |-> phone, outcome |-> "dry_run"])]
  ELSE LET sent == _send_sms_to_phone(acc.logs, phone, ALERT_MESSAGE,
                                      Outcome(deliver, phone), faults)
           att == Append(acc.attempted,
                         [phone |-> phone, outcome |-> Outcome(deliver, phone)])
       IN IF sent.ret[1]
          THEN [results |-> [acc.results EXCEPT !.sent_count = @ + 1],
                logs |-> sent.logs, attempted |-> att]
          ELSE [results |-> [acc.results EXCEPT
                               !.success = FALSE,
                               !.failed_count = @ + 1,
                               !.errors = Append(@, <<phone, sent.ret[2]>>)],
                logs |-> sent.logs, attempted |-> att]

\* Mutant: a simulated delivery is not logged.
FanOutStep_DryRunNotLogged(acc, phone, dry, deliver, faults) ==
  IF dry
  THEN [results |-> [acc.results EXCEPT !.sent_count = @ + 1],
        logs |-> acc.logs,
        attempted |-> Append(acc.attempted, [phone |-> phone, outcome |-> "dry_run"])]
  ELSE LET sent == _send_sms_to_phone(acc.logs, phone, ALERT_MESSAGE,
                                      Outcome(deliver, phone), faults)
           att == Append(acc.attempted,
                         [phone |-> phone, outcome |-> Outcome(deliver, phone)])
       IN IF sent.ret[1]
          THEN [results |-> [acc.results EXCEPT !.sent_count = @ + 1],
                logs |-> sent.logs, attempted |-> att]
          ELSE [results |-> [acc.results EXCEPT
                               !.failed_count = @ + 1,
                               !.errors = Append(@, <<phone, sent.ret[2]>>)],
                logs |-> sent.logs, attempted |-> att]

\* One iteration of the loop over active_phones (the body of the for).
\* acc = [results, logs, attempted]; attempted is the history of the
\* addresses for which a delivery was made or simulated.
FanOutStep(acc, phone, dry, deliver, faults) ==
  IF dry
  THEN [results |-> [acc.results EXCEPT !.sent_count = @ + 1],
        logs |-> _log_sms_attempt(acc.logs, phone, ALERT_MESSAGE, TRUE, "None", faults),
        attempted |-> Append(acc.attempted, [phone |-> phone, outcome |-> "dry_run"])]
  ELSE LET sent == _send_sms_to_phone(acc.logs, phone, ALERT_MESSAGE,
                                      Outcome(deliver, phone), faults)
           att == Append(acc.attempted,
                         [phone |-> phone, outcome |-> Outcome(deliver, phone)])
       IN IF sent.ret[1]
          THEN [results |-> [acc.results EXCEPT !.sent_count = @ + 1],
                logs |-> sent.logs, attempted |-> att]
          ELSE [results |-> [acc.results EXCEPT
                               !.failed_count = @ + 1,
                               !.errors = Append(@, <<phone, sent.ret[2]>>)],
                logs |-> sent.logs, attempted |-> att]

\* Mutant: the loop ends at the first failed delivery.
RECURSIVE FanOut_StopAtFailure(_, _, _, _, _)
FanOut_StopAtFailure(acc, phones, dry, deliver, faults) ==
  IF phones = <<>> \/ acc.results.failed_count > 0 THEN acc
  ELSE FanOut_StopAtFailure(FanOutStep(acc, Head(phones), dry, deliver, faults),
                            Tail(phones), dry, deliver, faults)

RECURSIVE FanOut(_, _, _, _, _)
FanOut(acc, phones, dry, deliver, faults) ==
  IF phones = <<>> THEN acc
  ELSE FanOut(FanOutStep(acc, Head(phones), dry, deliver, faults),
              Tail(phones), dry, deliver, faults)

\* send_change_alert: the returned dict, the table sms_logs after the call
\* and the history of the call (what it found, what it attempted and which
\* persistence operations raised).
send_change_alert(event_id, new_sectors, dry, deliver, faults) ==
  LET base == [event_id |-> event_id, new_sectors |-> new_sectors, dry |-> dry,
               time |-> clock, configured |-> configured,
               log_len |-> Len(sms_logs),
               recent |-> RecentAlertRow(sms_logs, clock),
               registered |-> ActiveRecipients]
  IN
  IF ~is_configured
  THEN [result |-> [success |-> FALSE, error |-> "SMS service not configured"],
        logs |-> sms_logs,
        call |-> base @@ [attempted |-> <<>>, raised |-> {}]]
  ELSE IF _should_skip_due_to_deduplication(sms_logs, faults)
  THEN [result |-> [success |-> TRUE, skipped |-> TRUE, reason |-> "deduplication"],
        logs |-> sms_logs,
        call |-> base @@ [attempted |-> <<>>, raised |-> {}]]
  ELSE LET active_phones == _get_active_phone_numbers(faults) IN
       IF active_phones = <<>>
       THEN [result |-> [success |-> TRUE, skipped |-> TRUE, reason |-> "no_phones"],
             logs |-> sms_logs,
             call |-> base @@ [attempted |-> <<>>,
                               raised |-> faults \cap {"dedup", "phones"}]]
       ELSE LET results == [success |-> TRUE, total_phones |-> Len(active_phones),
                            sent_count |-> 0, failed_count |-> 0,
                            errors |-> <<>>, dry_run |-> dry]
                done == FanOut([results |-> results, logs |-> sms_logs,
                                attempted |-> <<>>],
                               active_phones, dry, deliver, faults)
            IN [result |-> done.results, logs |-> done.logs,
                call |-> base @@ [attempted |-> done.attempted,
                                  raised |-> faults \cap ({"dedup"} \cup Range(active_phones))]]

\* History: the call just made, with the time and the mode of the call
\* before it and the number of successful rows that call logged.
NoCall == [event_id |-> "None"]
SuccessRows(logs, from) ==
  Cardinality({i \in (from + 1)..Len(logs) : logs[i].success})
Record(sent) ==
  sent.call @@
  [result |-> sent.result,
   prev |-> IF last_alert = NoCall THEN NoCall
            ELSE [event_id |-> last_alert.event_id, time |-> last_alert.time,
                  new_sectors |-> last_alert.new_sectors,
                  dry |-> last_alert.dry,
                  attempts |-> Len(last_alert.attempted),
                  log_len |-> last_alert.log_len,
                  ok_rows |-> SuccessRows(sms_logs, last_alert.log_len)]]

(* ------------------------------------------------------------------ *)
(* Recipient addresses (app/alerts/sms.py)                              *)
(* ------------------------------------------------------------------ *)
\* A Python str is held as the sequence of its characters; Join gives the
\* string the tables hold in their phone column.
RECURSIVE Join(_)
Join(cs) == IF cs = <<>> THEN "" ELSE Head(cs) \o Join(Tail(cs))

\* The class \d of the patterns, for the characters of the model.
IsDigit(c) == c \in {"0", "1", "2", "3", "4", "5", "6", "7", "8", "9"}

\* re.sub(r'[^\d+]', '', phone)
Cleaned(phone) == SelectSeq(phone, LAMBDA c : IsDigit(c) \/ c = "+")

\* re.match(r'^\+\d{10,15}$', cleaned)
MatchE164(cleaned) ==
  /\ Len(cleaned) >= 1
  /\ cleaned[1] = "+"
  /\ \A i \in 2..Len(cleaned) : IsDigit(cleaned[i])
  /\ Len(cleaned) - 1 >= 10
  /\ Len(cleaned) - 1 <= 15

\* re.match(r'^\d{10}$', cleaned).  Mutant: any number of digits.
MatchLocal_AnyLength(cleaned) ==
  \A i \in 1..Len(cleaned) : IsDigit(cleaned[i])
MatchLocal(cleaned) ==
  /\ Len(cleaned) = 10
  /\ \A i \in 1..Len(cleaned) : IsDigit(cleaned[i])

\* Mutants: the local form is given no country code; the characters that
\* are neither digits nor '+' are not removed.
validate_phone_number_NoPrefix(phone) ==
  LET cleaned == Cleaned(phone) IN
  IF MatchE164(cleaned) \/ MatchLocal(cleaned) THEN <<TRUE, cleaned>>
  ELSE <<FALSE, phone>>
validate_phone_number_NoCleaning(phone) ==
  IF MatchE164(phone) THEN <<TRUE, phone>>
  ELSE IF MatchLocal(phone) THEN <<TRUE, <<"+", "5", "7">> \o phone>>
  ELSE <<FALSE, phone>>

\* validate_phone_number: (is_valid, normalized_phone).
validate_phone_number(phone) ==
  LET cleaned == Cleaned(phone) IN
  IF MatchE164(cleaned) THEN <<TRUE, cleaned>>
  ELSE IF MatchLocal(cleaned) THEN <<TRUE, <<"+", "5", "7">> \o cleaned>>
  ELSE <<FALSE, phone>>

\* One new row of phone_numbers: registered_at defaults to utcnow() and
\* active to True.
PhoneNumber(phone) == [phone |-> phone, registered_at |-> clock, active |-> TRUE]

\* query(PhoneNumber).filter(PhoneNumber.phone == normalized_phone).first():
\* the index of the row, 0 for None.
FirstRow(table, normalized_phone) ==
  LET rows == {i \in 1..Len(table) : table[i].phone = normalized_phone} IN
  IF rows = {} THEN 0 ELSE CHOOSE i \in rows : \A j \in rows : i <= j

\* Reactivation of the row found: existing.active = True and
\* existing.registered_at = utcnow().  Mutant: the timestamp is kept.
Reactivate_KeepTimestamp(existing) ==
  [phone_numbers EXCEPT ![existing].active = TRUE]
Reactivate(existing) ==
  [phone_numbers EXCEPT ![existing].active = TRUE,
                        ![existing].registered_at = clock]

\* Mutants: an active row does not stop the registration; a new row is added
\* without looking for an existing one.
register_phone_number_NoDuplicateCheck(phone, faults) ==
  LET v == validate_phone_number(phone)
      normalized_phone == Join(v[2])
      existing == FirstRow(phone_numbers, normalized_phone)
  IN
  IF ~v[1]
  THEN [result |-> [success |-> FALSE,
                    error |-> "Invalid phone number format. Use E.164 format (+573001234567)"],
        table |-> phone_numbers]
  ELSE IF "register" \in faults
  THEN [result |-> [success |-> FALSE, error |-> "Database error occurred"],
        table |-> phone_numbers]
  ELSE IF existing # 0
  THEN [result |-> [success |-> TRUE,
                    message |-> "Phone number reactivated successfully",
                    phone |-> normalized_phone],
        table |-> Reactivate(existing)]
  ELSE [result |-> [success |-> TRUE,
                    message |-> "Phone number registered successfully",
                    phone |-> normalized_phone],
        table |-> Append(phone_numbers, PhoneNumber(normalized_phone))]
register_phone_number_AlwaysAdd(phone, faults) ==
  LET v == validate_phone_number(phone)
      normalized_phone == Join(v[2])
  IN
  IF ~v[1]
  THEN [result |-> [success |-> FALSE,
                    error |-> "Invalid phone number format. Use E.164 format (+573001234567)"],
        table |-> phone_numbers]
  ELSE IF "register" \in faults
  THEN [result |-> [success |-> FALSE, error |-> "Database error occurred"],
        table |-> phone_numbers]
  ELSE [result |-> [success |-> TRUE,
                    message |-> "Phone number registered successfully",
                    phone |-> normalized_phone],
        table |-> Append(phone_numbers, PhoneNumber(normalized_phone))]

\* register_phone_number: the returned dict and the table after the call.  An
\* exception of the session (query or commit) leaves nothing committed.
register_phone_number(phone, faults) ==
  LET v == validate_phone_number(phone)
      is_valid == v[1]
      normalized_phone == Join(v[2])
      existing == FirstRow(phone_numbers, normalized_phone)
  IN
  IF ~is_valid
  THEN [result |-> [success |-> FALSE,
                    error |-> "Invalid phone number format. Use E.164 format (+573001234567)"],
        table |-> phone_numbers]
  ELSE IF "register" \in faults
  THEN [result |-> [success |-> FALSE, error |-> "Database error occurred"],
        table |-> phone_numbers]
  ELSE IF existing # 0
  THEN IF phone_numbers[existing].active
       THEN [result |-> [success |-> FALSE,
                         error |-> "Phone number already registered and active"],
             table |-> phone_numbers]
       ELSE [result |-> [success |-> TRUE,
                         message |-> "Phone number reactivated successfully",
                         phone |-> normalized_phone],
             table |-> Reactivate(existing)]
  ELSE [result |-> [success |-> TRUE,
                    message |-> "Phone number registered successfully",
                    phone |-> normalized_phone],
        table |-> Append(phone_numbers, PhoneNumber(normalized_phone))]

\* Mutant: the row is deleted.
unregister_phone_number_Delete(phone, faults) ==
  LET v == validate_phone_number(phone)
      normalized_phone == Join(v[2])
      phone_record == FirstRow(phone_numbers, normalized_phone)
  IN
  IF ~v[1]
  THEN [result |-> [success |-> FALSE, error |-> "Invalid phone number format"],
        table |-> phone_numbers]
  ELSE IF "unregister" \in faults
  THEN [result |-> [success |-> FALSE, error |-> "Database error occurred"],
        table |-> phone_numbers]
  ELSE IF phone_record = 0
  THEN [result |-> [success |-> FALSE, error |-> "Phone number not found"],
        table |-> phone_numbers]
  ELSE [result |-> [success |-> TRUE,
                    message |-> "Phone number unregistered successfully"],
        table |-> SubSeq(phone_numbers, 1, phone_record - 1) \o
                  SubSeq(phone_numbers, phone_record + 1, Len(phone_numbers))]

\* unregister_phone_number: the returned dict and the table after the call.
unregister_phone_number(phone, faults) ==
  LET v == validate_phone_number(phone)
      is_valid == v[1]
      normalized_phone == Join(v[2])
      phone_record == FirstRow(phone_numbers, normalized_phone)
  IN
  IF ~is_valid
  THEN [result |-> [success |-> FALSE, error |-> "Invalid phone number format"],
        table |-> phone_numbers]
  ELSE IF "unregister" \in faults
  THEN [result |-> [success |-> FALSE, error |-> "Database error occurred"],
        table |-> phone_numbers]
  ELSE IF phone_record = 0
  THEN [result |-> [success |-> FALSE, error |-> "Phone number not found"],
        table |-> phone_numbers]
  ELSE [result |-> [success |-> TRUE,
                    message |-> "Phone number unregistered successfully"],
        table |-> [phone_numbers EXCEPT ![phone_record].active = FALSE]]

(* ------------------------------------------------------------------ *)
(* SnapshotComparator (app/monitor/diff.py)                             *)
(* ------------------------------------------------------------------ *)
\* Mutants: new and removed exchanged; has_changes looks at new sectors only.
detect_changes_Swapped(previous_sectors, current_sectors) ==
  LET new_sectors == previous_sectors \ current_sectors
      removed_sectors == current_sectors \ previous_sectors
      unchanged_sectors == current_sectors \cap previous_sectors
  IN [has_changes |-> Cardinality(new_sectors) > 0 \/ Cardinality(removed_sectors) > 0,
      new_sectors |-> new_sectors,
      removed_sectors |-> removed_sectors,
      unchanged_sectors |-> unchanged_sectors,
      total_previous |-> Cardinality(previous_sectors),
      total_current |-> Cardinality(current_sectors),
      timestamp |-> clock]
detect_changes_HasNewOnly(previous_sectors, current_sectors) ==
  LET new_sectors == current_sectors \ previous_sectors
      removed_sectors == previous_sectors \ current_sectors
      unchanged_sectors == current_sectors \cap previous_sectors
  IN [has_changes |-> Cardinality(new_sectors) > 0,
      new_sectors |-> new_sectors,
      removed_sectors |-> removed_sectors,
      unchanged_sectors |-> unchanged_sectors,
      total_previous |-> Cardinality(previous_sectors),
      total_current |-> Cardinality(current_sectors),
      timestamp |-> clock]

\* detect_changes: the lists of the returned dict are lists of distinct
\* items in no particular order (list(set)); they are held as sets.
detect_changes(previous_sectors, current_sectors) ==
  LET new_sectors == current_sectors \ previous_sectors
      removed_sectors == previous_sectors \ current_sectors
      unchanged_sectors == current_sectors \cap previous_sectors
  IN [has_changes |-> Cardinality(new_sectors) > 0 \/ Cardinality(removed_sectors) > 0,
      new_sectors |-> new_sectors,
      removed_sectors |-> removed_sectors,
      unchanged_sectors |-> unchanged_sectors,
      total_previous |-> Cardinality(previous_sectors),
      total_current |-> Cardinality(current_sectors),
      timestamp |-> clock]

should_send_alert_AnyChange(change_info) == change_info.has_changes
should_send_alert_TwoOrMore(change_info) ==
  Cardinality(change_info.new_sectors) > 1
should_send_alert(change_info) == Cardinality(change_info.new_sectors) > 0

(* ------------------------------------------------------------------ *)
(* SectorParser (app/monitor/parse.py)                                  *)
(* ------------------------------------------------------------------ *)
\* A str is a sequence of one-character strings; a missing key of a raw
\* item reads as the empty str, as sector.get(key, '') does.
UpperCase == <<"A", "B", "C", "D", "E", "F", "G", "H", "I", "J", "K", "L", "M",
               "N", "O", "P", "Q", "R", "S", "T", "U", "V", "W", "X", "Y", "Z">>
LowerCase == <<"a", "b", "c", "d", "e", "f", "g", "h", "i", "j", "k", "l", "m",
               "n", "o", "p", "q", "r", "s", "t", "u", "v", "w", "x", "y", "z">>

\* str.lower()
lower(s) ==
  [i \in 1..Len(s) |->
     IF \E k \in 1..Len(UpperCase) : UpperCase[k] = s[i]
     THEN LowerCase[CHOOSE k \in 1..Len(UpperCase) : UpperCase[k] = s[i]]
     ELSE s[i]]

\* sub in s
Contains(sub, s) ==
  \E i \in 0..(Len(s) - Len(sub)) : SubSeq(s, i + 1, i + Len(sub)) = sub

\* any(indicator in s for indicator in indicators)
AnyIn(indicators, s) ==
  \E i \in 1..Len(indicators) : Contains(indicators[i], s)

\* "disponible", "available", "selectable", "enabled"
available_indicators ==
  <<<<"d", "i", "s", "p", "o", "n", "i", "b", "l", "e">>,
    <<"a", "v", "a", "i", "l", "a", "b", "l", "e">>,
    <<"s", "e", "l", "e", "c", "t", "a", "b", "l", "e">>,
    <<"e", "n", "a", "b", "l", "e", "d">>>>

\* "no disponible", "unavailable", "disabled", "sold out", "agotado"
unavailable_indicators ==
  <<<<"n", "o", " ", "d", "i", "s", "p", "o", "n", "i", "b", "l", "e">>,
    <<"u", "n", "a", "v", "a", "i", "l", "a", "b", "l", "e">>,
    <<"d", "i", "s", "a", "b", "l", "e", "d">>,
    <<"s", "o", "l", "d", " ", "o", "u", "t">>,
    <<"a", "g", "o", "t", "a", "d", "o">>>>

\* The four checks of _is_sector_available, each "available", "unavailable"
\* or "nothing" when it falls through to the next.
LabelSignal(sector) ==
  LET aria_label == lower(Get(sector, "aria_label", <<>>)) IN
  IF AnyIn(available_indicators, aria_label) THEN "available"
  ELSE IF AnyIn(unavailable_indicators, aria_label) THEN "unavailable"
  ELSE "nothing"

ClassSignal(sector) ==
  LET class_names == lower(Get(sector, "class_names", <<>>)) IN
  IF \/ Contains(<<"a", "v", "a", "i", "l", "a", "b", "l", "e">>, class_names)
     \/ Contains(<<"s", "e", "l", "e", "c", "t", "a", "b", "l", "e">>, class_names)
  THEN "available"
  ELSE IF \/ Contains(<<"d", "i", "s", "a", "b", "l", "e", "d">>, class_names)
          \/ Contains(<<"u", "n", "a", "v", "a", "i", "l", "a", "b", "l", "e">>, class_names)
  THEN "unavailable"
  ELSE "nothing"

StatusSignal(sector) ==
  LET data_status == lower(Get(sector, "data_status", <<>>)) IN
  IF data_status \in {<<"a", "v", "a", "i", "l", "a", "b", "l", "e">>,
                      <<"e", "n", "a", "b", "l", "e", "d">>,
                      <<"s", "e", "l", "e", "c", "t", "a", "b", "l", "e">>}
  THEN "available"
  ELSE IF data_status \in {<<"u", "n", "a", "v", "a", "i", "l", "a", "b", "l", "e">>,
                           <<"d", "i", "s", "a", "b", "l", "e", "d">>,
                           <<"s", "o", "l", "d", "-", "o", "u", "t">>}
  THEN "unavailable"
  ELSE "nothing"

\* 'blue', '#0066cc', '#007bff' and 'gray', 'grey', '#cccccc', '#999999'
available_colors ==
  <<<<"b", "l", "u", "e">>,
    <<"#", "0", "0", "6", "6", "c", "c">>,
    <<"#", "0", "0", "7", "b", "f", "f">>>>
unavailable_colors ==
  <<<<"g", "r", "a", "y">>,
    <<"g", "r", "e", "y">>,
    <<"#", "c", "c", "c", "c", "c", "c">>,
    <<"#", "9", "9", "9", "9", "9", "9">>>>

ColorSignal(sector) ==
  LET style == lower(Get(sector, "style", <<>>))
      fill == lower(Get(sector, "fill", <<>>))
  IN IF \E i \in 1..Len(available_colors) :
          Contains(available_colors[i], style) \/ Contains(available_colors[i], fill)
     THEN "available"
     ELSE IF \E i \in 1..Len(unavailable_colors) :
               \/ Contains(unavailable_colors[i], style)
               \/ Contains(unavailable_colors[i], fill)
     THEN "unavailable"
     ELSE "nothing"

_is_sector_available_ClassFirst(sector) ==
  IF ClassSignal(sector) # "nothing" THEN ClassSignal(sector) = "available"
  ELSE IF LabelSignal(sector) # "nothing" THEN LabelSignal(sector) = "available"
  ELSE IF StatusSignal(sector) # "nothing" THEN StatusSignal(sector) = "available"
  ELSE IF ColorSignal(sector) # "nothing" THEN ColorSignal(sector) = "available"
  ELSE FALSE

_is_sector_available_FailOpen(sector) ==
  IF LabelSignal(sector) # "nothing" THEN LabelSignal(sector) = "available"
  ELSE IF ClassSignal(sector) # "nothing" THEN ClassSignal(sector) = "available"
  ELSE IF StatusSignal(sector) # "nothing" THEN StatusSignal(sector) = "available"
  ELSE IF ColorSignal(sector) # "nothing" THEN ColorSignal(sector) = "available"
  ELSE TRUE

\* _is_sector_available: the first check that does not fall through
\* decides; False when all of them fall through.
_is_sector_available(sector) ==
  IF LabelSignal(sector) # "nothing" THEN LabelSignal(sector) = "available"
  ELSE IF ClassSignal(sector) # "nothing" THEN ClassSignal(sector) = "available"
  ELSE IF StatusSignal(sector) # "nothing" THEN StatusSignal(sector) = "available"
  ELSE IF ColorSignal(sector) # "nothing" THEN ColorSignal(sector) = "available"
  ELSE FALSE

\* The classes \s and \w of the patterns, for the characters of the model.
IsSpace(c) == c \in {" ", "\t"}
IsWord(c) ==
  \/ \E k \in 1..Len(UpperCase) : c = UpperCase[k] \/ c = LowerCase[k]
  \/ IsDigit(c)
  \/ c = "_"

\* str.strip()
RECURSIVE lstrip(_)
lstrip(s) == IF s # <<>> /\ IsSpace(Head(s)) THEN lstrip(Tail(s)) ELSE s
RECURSIVE rstrip(_)
rstrip(s) ==
  IF s # <<>> /\ IsSpace(s[Len(s)]) THEN rstrip(SubSeq(s, 1, Len(s) - 1)) ELSE s
strip(s) == rstrip(lstrip(s))

\* re.sub(r'[^\w\s-]', '', s)
RemoveSymbols_KeepAll(s) == s
RemoveSymbols(s) ==
  SelectSeq(s, LAMBDA c : IsWord(c) \/ IsSpace(c) \/ c = "-")

\* re.sub(r'\s+', '_', s)
RECURSIVE CollapseSpaces(_)
CollapseSpaces(s) ==
  IF s = <<>> THEN <<>>
  ELSE IF IsSpace(Head(s)) THEN <<"_">> \o CollapseSpaces(lstrip(s))
  ELSE <<Head(s)>> \o CollapseSpaces(Tail(s))

\* a or b, for two str
Or(a, b) == IF a # <<>> THEN a ELSE b

\* The value _extract_sector_id starts from: the first of the six sources
\* that is not empty.
FirstSource(sector) ==
  Or(Get(sector, "id", <<>>),
  Or(Get(sector, "data_sector_id", <<>>),
  Or(Get(sector, "data_section", <<>>),
  Or(Get(sector, "aria_label", <<>>),
  Or(Get(sector, "title", <<>>),
     strip(Get(sector, "text_content", <<>>)))))))

\* _extract_sector_id: the cleaned identifier, or None when every source is
\* empty.
_extract_sector_id(sector) ==
  LET sector_id == FirstSource(sector) IN
  IF sector_id # <<>>
  THEN [none |-> FALSE,
        id |-> lower(CollapseSpaces(strip(RemoveSymbols(sector_id))))]
  ELSE [none |-> TRUE, id |-> <<>>]

\* normalize_sectors: the identifiers of the items that are available and
\* whose identifier is neither None nor empty, as a set of str.
normalize_sectors(raw_sectors) ==
  {Join(_extract_sector_id(raw_sectors[i]).id) :
     i \in {j \in 1..Len(raw_sectors) :
              /\ _is_sector_available(raw_sectors[j])
              /\ ~_extract_sector_id(raw_sectors[j]).none
              /\ _extract_sector_id(raw_sectors[j]).id # <<>>}}

(* ------------------------------------------------------------------ *)
(* TicketmasterMonitor (app/main.py)                                    *)
(* ------------------------------------------------------------------ *)
\* Outcomes of the scrape: a list of sectors, None, or an exception raised
\* while the browser is started.
ScrapeOutcomes == [kind : {"none", "raise"}, sectors : {{}}] \cup
                  [kind : {"list"}, sectors : SUBSET Sectors]

_get_previous_snapshot_AnyEvent(event_id, faults) ==
  IF "get_previous" \in faults \/ snapshots = <<>> THEN {}
  ELSE snapshots[Len(snapshots)].sectors

_get_previous_snapshot_Forgets(event_id, faults) == {}
\* Mutant: a query that raises still yields the stored sectors.
_get_previous_snapshot_Unfailing(event_id, faults) ==
  LET rows == {i \in 1..Len(snapshots) : snapshots[i].event_id = event_id} IN
  IF rows = {} THEN {}
  ELSE snapshots[CHOOSE i \in rows : \A j \in rows : j <= i].sectors

\* _get_previous_snapshot: the sectors of the latest snapshot of the event,
\* set() when there is none or when the query raises.
_get_previous_snapshot(event_id, faults) ==
  LET rows == {i \in 1..Len(snapshots) : snapshots[i].event_id = event_id} IN
  IF "get_previous" \in faults \/ rows = {} THEN {}
  ELSE LET latest == CHOOSE i \in rows : \A j \in rows : j <= i IN
       snapshots[latest].sectors

_save_snapshot_Drops(event_id, sectors, faults) == snapshots

\* _save_snapshot: appends the snapshot; an exception is swallowed.
_save_snapshot(event_id, sectors, faults) ==
  IF "save_snapshot" \in faults THEN snapshots
  ELSE Append(snapshots, [event_id |-> event_id, sectors |-> sectors,
                          timestamp |-> clock])

\* _log_change: appends the change record; an exception is swallowed.
_log_change(event_id, new_sectors, faults) ==
  IF "log_change" \in faults THEN change_logs
  ELSE Append(change_logs, [event_id |-> event_id, new_sectors |-> new_sectors,
                            timestamp |-> clock, sms_sent |-> ~dry_run])

\* _update_event_timestamp: an exception is swallowed.
_update_event_timestamp(event_id, faults) ==
  IF "update_timestamp" \in faults THEN last_checked
  ELSE [last_checked EXCEPT ![event_id] = clock]

\* The inputs of one handler run that the handler can read: one outcome of
\* the transport per active recipient; none when nothing is delivered.
DeliverInputs(dry) ==
  IF dry \/ ~configured THEN {[p \in {} |-> "ok"]}
  ELSE [Range(ActiveRecipients) -> DeliverOutcomes]

\* No comparison was made: the observation failed before detect_changes.
NoChange == [has_changes |-> FALSE]

monitor_single_event_FailureIsEmpty(event_id, scraped, deliver, faults) ==
  [result |-> [event_id |-> event_id, success |-> TRUE,
               sectors_found |-> Cardinality(scraped.sectors),
               changes_detected |-> FALSE, new_sectors |-> {},
               sms_sent |-> FALSE, error |-> "None"],
   snapshots |-> _save_snapshot(event_id, scraped.sectors, faults),
   change_logs |-> change_logs,
   last_checked |-> _update_event_timestamp(event_id, faults),
   sms_logs |-> sms_logs, last_alert |-> last_alert, alert |-> NoCall,
   change_info |-> NoChange,
   steps |-> <<"scrape_event", "_save_snapshot", "_update_event_timestamp">>]

\* monitor_single_event: the returned dict, every table after the call, the
\* change_info it computed, the history of the send_change_alert call it
\* made, if any, and the calls it made in the order it made them.
monitor_single_event(event_id, scraped, deliver, faults) ==
  LET result == [event_id |-> event_id, success |-> FALSE, sectors_found |-> 0,
                 changes_detected |-> FALSE, new_sectors |-> {},
                 sms_sent |-> FALSE, error |-> "None"]
      same == [snapshots |-> snapshots, change_logs |-> change_logs,
               last_checked |-> last_checked, sms_logs |-> sms_logs,
               last_alert |-> last_alert, alert |-> NoCall,
               change_info |-> NoChange,
               steps |-> <<"scrape_event">>]
  IN
  IF scraped.kind = "raise"
  THEN [result |-> [result EXCEPT !.error = "exception"]] @@ same
  ELSE IF scraped.kind = "none"
  THEN [result |-> [result EXCEPT !.error = "Failed to scrape event"]] @@ same
  ELSE LET current_sectors_set == scraped.sectors
           previous_sectors_set == _get_previous_snapshot(event_id, faults)
           change_info == detect_changes(previous_sectors_set, current_sectors_set)
           r1 == [result EXCEPT !.sectors_found = Cardinality(scraped.sectors),
                                !.changes_detected = change_info.has_changes,
                                !.new_sectors = change_info.new_sectors]
           snaps == _save_snapshot(event_id, scraped.sectors, faults)
           checked == _update_event_timestamp(event_id, faults)
           steps == <<"scrape_event", "_get_previous_snapshot", "detect_changes",
                      "_save_snapshot", "_update_event_timestamp">>
       IN IF should_send_alert(change_info)
          THEN LET sent == send_change_alert(event_id, change_info.new_sectors,
                                             dry_run, deliver, faults)
                   sms_result == sent.result
               IN [result |-> [r1 EXCEPT !.sms_sent = Get(sms_result, "success", FALSE),
                                         !.success = TRUE],
                   snapshots |-> snaps,
                   change_logs |-> _log_change(event_id, change_info.new_sectors, faults),
                   last_checked |-> checked,
                   sms_logs |-> sent.logs,
                   last_alert |-> Record(sent),
                   alert |-> Record(sent),
                   change_info |-> change_info,
                   steps |-> steps \o <<"_log_change", "send_change_alert">>]
          ELSE [result |-> [r1 EXCEPT !.success = TRUE],
                snapshots |-> snaps, change_logs |-> change_logs,
                last_checked |-> checked, sms_logs |-> sms_logs,
                last_alert |-> last_alert, alert |-> NoCall,
                change_info |-> change_info,
                steps |-> steps]

(* ------------------------------------------------------------------ *)
(* Initial state and actions                                            *)
(* ------------------------------------------------------------------ *)
NoCycle == [event_id |-> "None"]
NoReg == [op |-> "None"]
NoDiff == [op |-> "None"]
NoParse == [op |-> "None"]
NoJob == [interval |-> 0, draws |-> 0, delays |-> <<>>]

Init ==
  /\ clock = 0
  /\ configured \in BOOLEAN
  /\ dry_run \in BOOLEAN
  /\ phone_numbers \in PhoneTables
  /\ sms_logs = <<>>
  /\ snapshots = <<>>
  /\ change_logs = <<>>
  /\ last_checked = [e \in EventIds |-> 0]
  /\ running = FALSE
  /\ instances = <<>>
  /\ triggers = [fired |-> 0, dropped |-> 0]
  /\ simulated = 0
  /\ runs = 0
  /\ faulted = 0
  /\ last_alert = NoCall
  /\ last_cycle = NoCycle
  /\ last_reg = NoReg
  /\ last_diff = NoDiff
  /\ last_parse = NoParse
  /\ job = NoJob

\* Time passes between two runs of a handler: a little less than the
\* deduplication window, or the whole window.
TickSteps == {DEDUPLICATION_WINDOW_MINUTES - 1, DEDUPLICATION_WINDOW_MINUTES}
Tick ==
  /\ \E d \in TickSteps :
       /\ clock + d <= MaxTime
       /\ clock' = clock + d
  /\ UNCHANGED <<configured, dry_run, phone_numbers, sms_logs, snapshots,
                 change_logs, last_checked, running, instances, triggers,
                 simulated, runs, faulted, last_alert, last_cycle>>
  /\ UNCHANGED <<last_reg, last_diff, last_parse, job>>

\* The values random.randint(min_interval, max_interval) is drawn from: the
\* two ends of the configured range, in seconds.
PollIntervals == {POLL_INTERVAL_MIN, POLL_INTERVAL_MAX}

\* start_scheduler: registers the recurring job with max_instances=1 and an
\* IntervalTrigger whose period is drawn here, once, when the trigger is
\* built.
start_scheduler ==
  /\ ~running
  /\ running' = TRUE
  /\ \E seconds \in PollIntervals :
       job' = [interval |-> seconds, draws |-> job.draws + 1, delays |-> <<>>]
  /\ UNCHANGED <<clock, configured, dry_run, phone_numbers, sms_logs, snapshots,
                 change_logs, last_checked, instances, triggers, simulated, runs,
                 faulted, last_alert, last_cycle>>
  /\ UNCHANGED <<last_reg, last_diff, last_parse>>

\* The interval trigger of the job fires, job.interval seconds after the
\* scheduler started or after it fired last: a new instance of
\* monitor_all_events starts unless max_instances of them are running.
TriggerStart ==
  /\ running
  /\ triggers.fired < MaxTriggers
  /\ Len(instances) < MAX_INSTANCES
  /\ instances' = Append(instances, [idx |-> 1, pc |-> "monitor"])
  /\ triggers' = [triggers EXCEPT !.fired = @ + 1]
  /\ job' = [job EXCEPT !.delays = Append(@, job.interval)]
  /\ UNCHANGED <<clock, configured, dry_run, phone_numbers, sms_logs, snapshots,
                 change_logs, last_checked, running, simulated, runs, faulted,
                 last_alert, last_cycle>>
  /\ UNCHANGED <<last_reg, last_diff, last_parse>>

TriggerDropped ==
  /\ running
  /\ triggers.fired < MaxTriggers
  /\ Len(instances) >= MAX_INSTANCES
  /\ triggers' = [triggers EXCEPT !.fired = @ + 1, !.dropped = @ + 1]
  /\ job' = [job EXCEPT !.delays = Append(@, job.interval)]
  /\ UNCHANGED <<clock, configured, dry_run, phone_numbers, sms_logs, snapshots,
                 change_logs, last_checked, running, instances, simulated, runs,
                 faulted, last_alert, last_cycle>>
  /\ UNCHANGED <<last_reg, last_diff, last_parse>>

\* The persistence operations one run of send_change_alert performs.
AlertOps(dry) ==
  IF ~configured THEN {}
  ELSE {"dedup", "phones"} \cup Range(ActiveRecipients)

\* One iteration of the loop of monitor_all_events up to the sleep:
\* monitor_single_event of the next configured event.
MonitorEvent(k) ==
  /\ k \in 1..Len(instances)
  /\ instances[k].pc = "monitor"
  /\ runs < MaxRuns
  /\ \E scraped \in ScrapeOutcomes :
     \E faults \in IF scraped.kind = "list"
                   THEN FaultSets({"get_previous", "save_snapshot", "log_change",
                                   "update_timestamp"} \cup AlertOps(dry_run),
                                  MaxFaults - faulted)
                   ELSE {{}} :
     \E deliver \in IF scraped.kind = "list" THEN DeliverInputs(dry_run)
                    ELSE {[p \in {} |-> "ok"]} :
     \E m \in {monitor_single_event(EVENTS[instances[k].idx], scraped,
                                     deliver, faults)} :
          /\ snapshots' = m.snapshots
          /\ change_logs' = m.change_logs
          /\ last_checked' = m.last_checked
          /\ sms_logs' = m.sms_logs
          /\ last_alert' = m.last_alert
          /\ last_cycle' = m.result @@
                            [alert |-> m.alert, change_info |-> m.change_info,
                             steps |-> m.steps,
                             scraped |-> scraped, raised |-> faults,
                             had_snapshot |-> \E i \in 1..Len(snapshots) :
                                                snapshots[i].event_id =
                                                  EVENTS[instances[k].idx],
                             position |-> instances[k].idx]
          /\ faulted' = faulted + Cardinality(faults)
          /\ instances' = [instances EXCEPT ![k].pc = "sleep"]
  /\ runs' = runs + 1
  /\ UNCHANGED <<clock, configured, dry_run, phone_numbers, running, triggers,
                 simulated>>
  /\ UNCHANGED <<last_reg, last_diff, last_parse, job>>

RemoveAt(s, k) == SubSeq(s, 1, k - 1) \o SubSeq(s, k + 1, Len(s))
InterEventDelay_SameTarget(k) ==
  /\ k \in 1..Len(instances)
  /\ instances[k].pc = "sleep"
  /\ instances' = IF instances[k].idx < Len(EVENTS)
                  THEN [instances EXCEPT ![k].pc = "monitor"]
                  ELSE RemoveAt(instances, k)
  /\ UNCHANGED <<clock, configured, dry_run, phone_numbers, sms_logs, snapshots,
                 change_logs, last_checked, running, triggers, simulated, runs,
                 faulted, last_alert, last_cycle>>
  /\ UNCHANGED <<last_reg, last_diff, last_parse, job>>

\* The delay between events has elapsed: next event, or the cycle returns.
InterEventDelay(k) ==
  /\ k \in 1..Len(instances)
  /\ instances[k].pc = "sleep"
  /\ instances' = IF instances[k].idx < Len(EVENTS)
                  THEN [instances EXCEPT ![k].idx = @ + 1, ![k].pc = "monitor"]
                  ELSE RemoveAt(instances, k)
  /\ UNCHANGED <<clock, configured, dry_run, phone_numbers, sms_logs, snapshots,
                 change_logs, last_checked, running, triggers, simulated, runs,
                 faulted, last_alert, last_cycle>>
  /\ UNCHANGED <<last_reg, last_diff, last_parse, job>>

\* main() with --simulate-delta: one direct call of send_change_alert.
SimulateDelta ==
  /\ simulated < MaxSimulate
  /\ \E faults \in FaultSets(AlertOps(dry_run), MaxFaults - faulted) :
     \E deliver \in DeliverInputs(dry_run) :
     \E sent \in {send_change_alert("pq23", FakeNewSectors, dry_run, deliver, faults)} :
          /\ sms_logs' = sent.logs
          /\ last_alert' = Record(sent)
          /\ faulted' = faulted + Cardinality(faults)
  /\ simulated' = simulated + 1
  /\ UNCHANGED <<clock, configured, dry_run, phone_numbers, snapshots,
                 change_logs, last_checked, running, instances, triggers,
                 runs, last_cycle>>
  /\ UNCHANGED <<last_reg, last_diff, last_parse, job>>

\* main() builds another TicketmasterMonitor: a new process reads its
\* environment (Twilio credentials present or not) and its --dry-run flag.
Restart ==
  /\ instances = <<>>
  /\ ~running
  /\ configured' \in BOOLEAN
  /\ dry_run' \in BOOLEAN
  /\ <<configured', dry_run'>> # <<configured, dry_run>>
  /\ UNCHANGED <<clock, phone_numbers, sms_logs, snapshots, change_logs,
                 last_checked, running, instances, triggers, simulated, runs,
                 faulted, last_alert, last_cycle>>
  /\ UNCHANGED <<last_reg, last_diff, last_parse, job>>

\* The monitoring service: the scheduler and its cycles.
Next ==
  \/ Tick
  \/ start_scheduler
  \/ TriggerStart
  \/ TriggerDropped
  \/ \E k \in 1..MAX_INSTANCES : MonitorEvent(k)
  \/ \E k \in 1..MAX_INSTANCES : InterEventDelay(k)

Spec == Init /\ [][Next]_vars

\* The same service as it is deployed: the transport is configured, alerts
\* are sent (no --dry-run), and of the registered recipients the first is
\* active and the other was unregistered.
InitService ==
  /\ Init
  /\ configured
  /\ ~dry_run
  /\ ActiveRows = {1}

SpecService == InitService /\ [][Next]_vars

\* The deployed service started again on its database: an earlier process
\* stored a snapshot of the first event, with one sector available.
StoredSnapshot ==
  [event_id |-> "pq23", sectors |-> {"sector_a1"}, timestamp |-> 0]
InitResumed ==
  /\ clock = 0
  /\ configured = TRUE
  /\ dry_run = FALSE
  /\ phone_numbers \in PhoneTables
  /\ ActiveRows = {1}
  /\ sms_logs = <<>>
  /\ snapshots = <<StoredSnapshot>>
  /\ change_logs = <<>>
  /\ last_checked = [e \in EventIds |-> 0]
  /\ running = FALSE
  /\ instances = <<>>
  /\ triggers = [fired |-> 0, dropped |-> 0]
  /\ simulated = 0
  /\ runs = 0
  /\ faulted = 0
  /\ last_alert = NoCall
  /\ last_cycle = NoCycle
  /\ last_reg = NoReg
  /\ last_diff = NoDiff
  /\ last_parse = NoParse
  /\ job = NoJob

SpecResumed == InitResumed /\ [][Next]_vars

\* The calls of a cycle that had returned when it was cut after the first
\* cut of them.
Returned(m, cut, name) == \E i \in 1..cut : m.steps[i] = name

\* signal_handler of main() (SIGINT, SIGTERM) while no target is being
\* monitored: stop_scheduler() shuts the scheduler down, which cancels the
\* job sleeping between two targets, and sys.exit(0) ends the process.
signal_handler ==
  /\ running
  /\ \A k \in 1..Len(instances) : instances[k].pc # "monitor"
  /\ running' = FALSE
  /\ instances' = <<>>
  /\ UNCHANGED <<clock, configured, dry_run, phone_numbers, sms_logs, snapshots,
                 change_logs, last_checked, triggers, simulated, runs, faulted,
                 last_alert, last_cycle>>
  /\ UNCHANGED <<last_reg, last_diff, last_parse, job>>

\* signal_handler of main() while monitor_single_event runs: the handler is
\* called in the thread of the event loop between two instructions of the
\* coroutine, and the SystemExit of sys.exit(0) is not an Exception, so no
\* handler of the cycle catches it: the calls that had returned keep their
\* committed effect, the others are never made.  The granularity is that of
\* the calls of monitor_single_event.
signal_handler_in_monitor_single_event(k) ==
  /\ running
  /\ k \in 1..Len(instances)
  /\ instances[k].pc = "monitor"
  /\ runs < MaxRuns
  /\ \E scraped \in [kind : {"list"}, sectors : SUBSET Sectors] :
     \E m \in {monitor_single_event(EVENTS[instances[k].idx], scraped,
                                     [p \in {} |-> "ok"], {})} :
     \E cut \in 0..(Len(m.steps) - 1) :
          /\ snapshots' = IF Returned(m, cut, "_save_snapshot")
                          THEN m.snapshots ELSE snapshots
          /\ last_checked' = IF Returned(m, cut, "_update_event_timestamp")
                             THEN m.last_checked ELSE last_checked
          /\ change_logs' = IF Returned(m, cut, "_log_change")
                            THEN m.change_logs ELSE change_logs
          /\ last_cycle' = [event_id |-> EVENTS[instances[k].idx],
                            interrupted |-> TRUE,
                            steps |-> SubSeq(m.steps, 1, cut),
                            scraped |-> scraped,
                            change_info |-> IF Returned(m, cut, "detect_changes")
                                            THEN m.change_info ELSE NoChange,
                            alert |-> NoCall,
                            position |-> instances[k].idx]
  /\ running' = FALSE
  /\ instances' = <<>>
  /\ runs' = runs + 1
  /\ UNCHANGED <<clock, configured, dry_run, phone_numbers, sms_logs, triggers,
                 simulated, faulted, last_alert>>
  /\ UNCHANGED <<last_reg, last_diff, last_parse, job>>

\* One process of the resumed service from the return of start_scheduler()
\* to its exit: the job is scheduled, and after the signal nothing runs.
InitShutdown ==
  /\ clock = 0
  /\ configured = TRUE
  /\ dry_run = FALSE
  /\ phone_numbers \in PhoneTables
  /\ ActiveRows = {1}
  /\ sms_logs = <<>>
  /\ snapshots = <<StoredSnapshot>>
  /\ change_logs = <<>>
  /\ last_checked = [e \in EventIds |-> 0]
  /\ running = TRUE
  /\ instances = <<>>
  /\ triggers = [fired |-> 0, dropped |-> 0]
  /\ simulated = 0
  /\ runs = 0
  /\ faulted = 0
  /\ last_alert = NoCall
  /\ last_cycle = NoCycle
  /\ last_reg = NoReg
  /\ last_diff = NoDiff
  /\ last_parse = NoParse
  /\ \E seconds \in PollIntervals :
       job = [interval |-> seconds, draws |-> 1, delays |-> <<>>]

NextShutdown ==
  \/ Tick
  \/ TriggerStart
  \/ TriggerDropped
  \/ \E k \in 1..MAX_INSTANCES : MonitorEvent(k)
  \/ \E k \in 1..MAX_INSTANCES : InterEventDelay(k)
  \/ signal_handler
  \/ \E k \in 1..MAX_INSTANCES : signal_handler_in_monitor_single_event(k)

SpecShutdown == InitShutdown /\ [][NextShutdown]_vars

\* The dispatcher alone: repeated direct calls of send_change_alert.
NextAlert ==
  \/ Tick
  \/ Restart
  \/ SimulateDelta

SpecAlert == Init /\ [][NextAlert]_vars

\* The dispatcher started on a database file that already holds delivery
\* log rows: Database() opens the file at DATABASE_URL and keeps what earlier
\* processes wrote, among them rows of failed deliveries and rows written
\* with another message text.
OtherMessage == "Nuevos sectores disponibles"
LogRowsAtStart ==
  {[phone |-> PhoneUniverse[1], message |-> m, timestamp |-> 0, success |-> ok,
    error_message |-> IF ok THEN "None" ELSE "Twilio error"] :
     m \in {ALERT_MESSAGE, OtherMessage}, ok \in BOOLEAN}
\* The tables made of any of these rows, one of each kind at most.
RECURSIVE RowsInOrder(_)
RowsInOrder(rows) ==
  IF rows = {} THEN <<>>
  ELSE LET r == CHOOSE x \in rows : TRUE IN <<r>> \o RowsInOrder(rows \ {r})
LogTables == {RowsInOrder(rows) : rows \in SUBSET LogRowsAtStart}

InitDedup ==
  /\ clock = 0
  /\ configured = TRUE
  /\ dry_run = FALSE
  /\ phone_numbers \in PhoneTables
  /\ sms_logs \in LogTables
  /\ snapshots = <<>>
  /\ change_logs = <<>>
  /\ last_checked = [e \in EventIds |-> 0]
  /\ running = FALSE
  /\ instances = <<>>
  /\ triggers = [fired |-> 0, dropped |-> 0]
  /\ simulated = 0
  /\ runs = 0
  /\ faulted = 0
  /\ last_alert = NoCall
  /\ last_cycle = NoCycle
  /\ last_reg = NoReg
  /\ last_diff = NoDiff
  /\ last_parse = NoParse
  /\ job = NoJob

NextDedup ==
  \/ Tick
  \/ SimulateDelta

SpecDedup == InitDedup /\ [][NextDedup]_vars

\* The addresses given to validate_phone_number: an optional leading '+',
\* up to MaxDigits digits and one kind of decoration, and the spellings of
\* the tests.
DigitCycle == <<"3", "0", "0", "1", "2", "3", "4", "5", "6", "7">>
DigitRun(n) == [i \in 1..n |-> DigitCycle[((i - 1) % Len(DigitCycle)) + 1]]
Decorations == {"plain", "spaces", "dashes", "letters", "plus_inside",
                "plus_last", "dot_first"}
RECURSIVE Spaced(_, _)
Spaced(ds, sep) ==
  IF Len(ds) <= 3 THEN ds
  ELSE SubSeq(ds, 1, 3) \o <<sep>> \o Spaced(SubSeq(ds, 4, Len(ds)), sep)
Decorated(ds, kind) ==
  CASE kind = "plain" -> ds
    [] kind = "spaces" -> Spaced(ds, " ")
    [] kind = "dashes" -> <<"(">> \o Spaced(ds, "-") \o <<")">>
    [] kind = "letters" -> <<"t", "e", "l">> \o ds \o <<"x">>
    [] kind = "plus_inside" ->
         IF Len(ds) < 2 THEN ds
         ELSE SubSeq(ds, 1, 1) \o <<"+">> \o SubSeq(ds, 2, Len(ds))
    [] kind = "plus_last" -> ds \o <<"+">>
    [] kind = "dot_first" -> <<".">> \o ds
Local3001234567 == <<"3", "0", "0", "1", "2", "3", "4", "5", "6", "7">>
Spaced573001234567 ==
  <<"+", "5", "7", " ", "3", "0", "0", " ", "1", "2", "3", " ",
    "4", "5", "6", "7">>
ValidateInputs ==
  {lead \o Decorated(DigitRun(n), kind) :
     lead \in {<<>>, <<"+">>}, n \in 0..MaxDigits, kind \in Decorations}
  \cup {Local3001234567, Spaced573001234567, <<"1", "2", "3">>}

\* validate_phone_number as a function of its argument.
InitValidate ==
  /\ clock = 0
  /\ configured = FALSE
  /\ dry_run = FALSE
  /\ phone_numbers = <<>>
  /\ sms_logs = <<>>
  /\ snapshots = <<>>
  /\ change_logs = <<>>
  /\ last_checked = [e \in EventIds |-> 0]
  /\ running = FALSE
  /\ instances = <<>>
  /\ triggers = [fired |-> 0, dropped |-> 0]
  /\ simulated = 0
  /\ runs = 0
  /\ faulted = 0
  /\ last_alert = NoCall
  /\ last_cycle = NoCycle
  /\ last_reg \in {[op |-> "input", phone |-> s] : s \in ValidateInputs}
  /\ last_diff = NoDiff
  /\ last_parse = NoParse
  /\ job = NoJob

Validate ==
  /\ last_reg.op = "input"
  /\ last_reg' = [op |-> "validate", phone |-> last_reg.phone,
                  ret |-> validate_phone_number(last_reg.phone)]
  /\ UNCHANGED <<clock, configured, dry_run, phone_numbers, sms_logs, snapshots,
                 change_logs, last_checked, running, instances, triggers,
                 simulated, runs, faulted, last_alert, last_cycle, last_diff>>
  /\ UNCHANGED <<last_parse, job>>

NextValidate == Validate

SpecValidate == InitValidate /\ [][NextValidate]_vars

\* The front end on a new database: addresses are registered and
\* unregistered (POST /register, POST /unregister) in several spellings.
Other573007654321 ==
  <<"+", "5", "7", "3", "0", "0", "7", "6", "5", "4", "3", "2", "1">>
RegisterInputs ==
  {Local3001234567, Spaced573001234567, Other573007654321, <<"1", "2", "3">>}

InitRecipients ==
  /\ clock = 0
  /\ configured = TRUE
  /\ dry_run = FALSE
  /\ phone_numbers = <<>>
  /\ sms_logs = <<>>
  /\ snapshots = <<>>
  /\ change_logs = <<>>
  /\ last_checked = [e \in EventIds |-> 0]
  /\ running = FALSE
  /\ instances = <<>>
  /\ triggers = [fired |-> 0, dropped |-> 0]
  /\ simulated = 0
  /\ runs = 0
  /\ faulted = 0
  /\ last_alert = NoCall
  /\ last_cycle = NoCycle
  /\ last_reg = NoReg
  /\ last_diff = NoDiff
  /\ last_parse = NoParse
  /\ job = NoJob

\* The session is used only by a call whose address is valid.
RegFaults(phone, op) ==
  IF validate_phone_number(phone)[1] THEN FaultSets({op}, MaxFaults - faulted)
  ELSE {{}}

\* History of one call: its argument, what it returned, the table it found.
RegRecord(op, phone, r, faults) ==
  [op |-> op, phone |-> phone, result |-> r.result, before |-> phone_numbers,
   time |-> clock, raised |-> faults,
   prev |-> IF last_reg = NoReg THEN NoReg
            ELSE [op |-> last_reg.op, phone |-> last_reg.phone,
                  result |-> last_reg.result]]

Register ==
  /\ \E phone \in RegisterInputs :
     \E faults \in RegFaults(phone, "register") :
     \E r \in {register_phone_number(phone, faults)} :
          /\ phone_numbers' = r.table
          /\ last_reg' = RegRecord("register", phone, r, faults)
          /\ faulted' = faulted + Cardinality(faults)
  /\ UNCHANGED <<clock, configured, dry_run, sms_logs, snapshots, change_logs,
                 last_checked, running, instances, triggers, simulated, runs,
                 last_alert, last_cycle, last_diff>>
  /\ UNCHANGED <<last_parse, job>>

Unregister ==
  /\ \E phone \in RegisterInputs :
     \E faults \in RegFaults(phone, "unregister") :
     \E r \in {unregister_phone_number(phone, faults)} :
          /\ phone_numbers' = r.table
          /\ last_reg' = RegRecord("unregister", phone, r, faults)
          /\ faulted' = faulted + Cardinality(faults)
  /\ UNCHANGED <<clock, configured, dry_run, sms_logs, snapshots, change_logs,
                 last_checked, running, instances, triggers, simulated, runs,
                 last_alert, last_cycle, last_diff>>
  /\ UNCHANGED <<last_parse, job>>

NextRegistry ==
  \/ Tick
  \/ Register
  \/ Unregister

SpecRegistry == InitRecipients /\ [][NextRegistry]_vars

\* detect_changes and should_send_alert as functions of two snapshots made
\* of the first MaxSectors sector ids.
SectorNames == <<"sector_a1", "sector_b2", "sector_c3", "sector_d4",
                 "sector_e5">>
DiffUniverse == {SectorNames[i] : i \in 1..MaxSectors}

InitDiff ==
  /\ clock = 0
  /\ configured = FALSE
  /\ dry_run = FALSE
  /\ phone_numbers = <<>>
  /\ sms_logs = <<>>
  /\ snapshots = <<>>
  /\ change_logs = <<>>
  /\ last_checked = [e \in EventIds |-> 0]
  /\ running = FALSE
  /\ instances = <<>>
  /\ triggers = [fired |-> 0, dropped |-> 0]
  /\ simulated = 0
  /\ runs = 0
  /\ faulted = 0
  /\ last_alert = NoCall
  /\ last_cycle = NoCycle
  /\ last_reg = NoReg
  /\ last_diff \in {[op |-> "input", previous |-> a, current |-> b] :
                      a \in SUBSET DiffUniverse, b \in SUBSET DiffUniverse}
  /\ last_parse = NoParse
  /\ job = NoJob

DetectChanges ==
  /\ last_diff.op = "input"
  /\ \E change_info \in {detect_changes(last_diff.previous, last_diff.current)} :
       last_diff' = [op |-> "detect", previous |-> last_diff.previous,
                     current |-> last_diff.current,
                     change_info |-> change_info,
                     alert |-> should_send_alert(change_info)]
  /\ UNCHANGED <<clock, configured, dry_run, phone_numbers, sms_logs, snapshots,
                 change_logs, last_checked, running, instances, triggers,
                 simulated, runs, faulted, last_alert, last_cycle, last_reg>>
  /\ UNCHANGED <<last_parse, job>>

NextDiff == DetectChanges

SpecDiff == InitDiff /\ [][NextDiff]_vars

\* The raw items given to normalize_sectors.  Every combination of a label,
\* a class, a status and two color hints, for the classification:
\* "" | "Disponible" | "Sector A - Disponible" | "Sector B - No disponible" |
\* "Unavailable" | "Sold Out" | "Sector C"
Labels ==
  {<<>>,
   <<"D", "i", "s", "p", "o", "n", "i", "b", "l", "e">>,
   <<"S", "e", "c", "t", "o", "r", " ", "A", " ", "-", " ", "D", "i", "s", "p", "o", "n", "i", "b", "l", "e">>,
   <<"S", "e", "c", "t", "o", "r", " ", "B", " ", "-", " ", "N", "o", " ", "d", "i", "s", "p", "o", "n", "i", "b", "l", "e">>,
   <<"U", "n", "a", "v", "a", "i", "l", "a", "b", "l", "e">>,
   <<"S", "o", "l", "d", " ", "O", "u", "t">>,
   <<"S", "e", "c", "t", "o", "r", " ", "C">>}
\* "" | "sector available selectable" | "sector disabled unavailable" |
\* "disabled" | "sector unavailable" | "sector"
Classes ==
  {<<>>,
   <<"s", "e", "c", "t", "o", "r", " ", "a", "v", "a", "i", "l", "a", "b", "l", "e", " ", "s", "e", "l", "e", "c", "t", "a", "b", "l", "e">>,
   <<"s", "e", "c", "t", "o", "r", " ", "d", "i", "s", "a", "b", "l", "e", "d", " ", "u", "n", "a", "v", "a", "i", "l", "a", "b", "l", "e">>,
   <<"d", "i", "s", "a", "b", "l", "e", "d">>,
   <<"s", "e", "c", "t", "o", "r", " ", "u", "n", "a", "v", "a", "i", "l", "a", "b", "l", "e">>,
   <<"s", "e", "c", "t", "o", "r">>}
\* "" | "available" | "sold-out" | "Enabled" | "available now"
Statuses ==
  {<<>>,
   <<"a", "v", "a", "i", "l", "a", "b", "l", "e">>,
   <<"s", "o", "l", "d", "-", "o", "u", "t">>,
   <<"E", "n", "a", "b", "l", "e", "d">>,
   <<"a", "v", "a", "i", "l", "a", "b", "l", "e", " ", "n", "o", "w">>}
\* "" | "fill: blue;" | "fill: gray;"
Styles ==
  {<<>>,
   <<"f", "i", "l", "l", ":", " ", "b", "l", "u", "e", ";">>,
   <<"f", "i", "l", "l", ":", " ", "g", "r", "a", "y", ";">>}
\* "" | "#cccccc" | "#007BFF"
Fills ==
  {<<>>,
   <<"#", "c", "c", "c", "c", "c", "c">>,
   <<"#", "0", "0", "7", "B", "F", "F">>}
SignalItems ==
  [id : {<<"s", "e", "c", "t", "o", "r", "_", "1">>},
   aria_label : Labels, class_names : Classes, data_status : Statuses,
   style : Styles, fill : Fills]

\* Every combination of the six sources of the identifier, on an item that
\* its class makes available:
\* "" | "sector_123" | "  " | "!!!" | " A  b " | "Sector A-1 (Premium)!"
Ids ==
  {<<>>,
   <<"s", "e", "c", "t", "o", "r", "_", "1", "2", "3">>,
   <<" ", " ">>,
   <<"!", "!", "!">>,
   <<" ", "A", " ", " ", "b", " ">>,
   <<"S", "e", "c", "t", "o", "r", " ", "A", "-", "1", " ", "(", "P", "r", "e", "m", "i", "u", "m", ")", "!">>}
IdItems ==
  [id : Ids,
   data_sector_id : {<<>>, <<"S", " ", "2">>},
   data_section : {<<>>, <<"S", "E", "C", "T", "I", "O", "N", "-", "A", "1">>},
   aria_label : {<<>>, <<"S", "e", "c", "t", "o", "r", " ", "(", "B", ")">>},
   title : {<<>>, <<"S", "e", "c", "t", "o", "r", " ", "P", "r", "e", "m", "i", "u", "m", " ", "A">>},
   text_content : {<<>>, <<" ", " ", "P", "a", "l", "c", "o", " ", "9", " ">>},
   class_names : {<<"a", "v", "a", "i", "l", "a", "b", "l", "e">>}]

\* Items with missing keys: the empty dict, and an id alone.
SparseItems ==
  {[k \in {} |-> <<>>],
   [id |-> <<"s", "e", "c", "t", "o", "r", "_", "1">>],
   [id |-> <<"s", "e", "c", "t", "o", "r", "_", "1">>, data_status |-> <<"s", "e", "l", "e", "c", "t", "a", "b", "l", "e">>]}

\* The lists of test_normalize_sectors_with_available_aria_label and of
\* test_normalize_sectors_with_class_names.
LabelTestList ==
  <<[id |-> <<"s", "e", "c", "t", "o", "r", "_", "1">>,
     aria_label |-> <<"S", "e", "c", "t", "o", "r", " ", "A", " ", "-", " ", "D", "i", "s", "p", "o", "n", "i", "b", "l", "e">>,
     class_names |-> <<"s", "e", "c", "t", "o", "r", " ", "a", "v", "a", "i", "l", "a", "b", "l", "e">>],
    [id |-> <<"s", "e", "c", "t", "o", "r", "_", "2">>,
     aria_label |-> <<"S", "e", "c", "t", "o", "r", " ", "B", " ", "-", " ", "N", "o", " ", "d", "i", "s", "p", "o", "n", "i", "b", "l", "e">>,
     class_names |-> <<"s", "e", "c", "t", "o", "r", " ", "d", "i", "s", "a", "b", "l", "e", "d">>]>>
ClassTestList ==
  <<[id |-> <<"s", "e", "c", "t", "o", "r", "_", "1">>,
     class_names |-> <<"s", "e", "c", "t", "o", "r", " ", "a", "v", "a", "i", "l", "a", "b", "l", "e", " ", "s", "e", "l", "e", "c", "t", "a", "b", "l", "e">>,
     aria_label |-> <<>>],
    [id |-> <<"s", "e", "c", "t", "o", "r", "_", "2">>,
     class_names |-> <<"s", "e", "c", "t", "o", "r", " ", "d", "i", "s", "a", "b", "l", "e", "d", " ", "u", "n", "a", "v", "a", "i", "l", "a", "b", "l", "e">>,
     aria_label |-> <<>>]>>

ParseInputs ==
  {<<sector>> : sector \in SignalItems \cup IdItems \cup SparseItems}
  \cup {<<>>, LabelTestList, ClassTestList}

\* normalize_sectors as a function of its argument.
InitParse ==
  /\ clock = 0
  /\ configured = FALSE
  /\ dry_run = FALSE
  /\ phone_numbers = <<>>
  /\ sms_logs = <<>>
  /\ snapshots = <<>>
  /\ change_logs = <<>>
  /\ last_checked = [e \in EventIds |-> 0]
  /\ running = FALSE
  /\ instances = <<>>
  /\ triggers = [fired |-> 0, dropped |-> 0]
  /\ simulated = 0
  /\ runs = 0
  /\ faulted = 0
  /\ last_alert = NoCall
  /\ last_cycle = NoCycle
  /\ last_reg = NoReg
  /\ last_diff = NoDiff
  /\ last_parse \in {[op |-> "input", raw_sectors |-> raw] : raw \in ParseInputs}
  /\ job = NoJob

NormalizeSectors ==
  /\ last_parse.op = "input"
  /\ \E raw_sectors \in {last_parse.raw_sectors} :
       last_parse' =
         [op |-> "normalize",
          raw_sectors |-> raw_sectors,
          available |-> [i \in 1..Len(raw_sectors) |->
                           _is_sector_available(raw_sectors[i])],
          sector_id |-> [i \in 1..Len(raw_sectors) |->
                           _extract_sector_id(raw_sectors[i])],
          result |-> normalize_sectors(raw_sectors)]
  /\ UNCHANGED <<clock, configured, dry_run, phone_numbers, sms_logs, snapshots,
                 change_logs, last_checked, running, instances, triggers,
                 simulated, runs, faulted, last_alert, last_cycle, last_reg,
                 last_diff, job>>

NextParse == NormalizeSectors

SpecParse == InitParse /\ [][NextParse]_vars

(* ------------------------------------------------------------------ *)
(* Properties of send_change_alert (checked under SpecAlert)            *)
(* ------------------------------------------------------------------ *)
Called == last_alert # NoCall

IsDedupSkip(r) ==
  r = [success |-> TRUE, skipped |-> TRUE, reason |-> "deduplication"]
IsNoPhonesSkip(r) ==
  r = [success |-> TRUE, skipped |-> TRUE, reason |-> "no_phones"]
IsConfigFailure(r) ==
  r = [success |-> FALSE, error |-> "SMS service not configured"]
IsBatch(r) == "total_phones" \in DOMAIN r

Delivered(o) == o \in {"ok", "dry_run"}

RECURSIVE AttemptedPhones(_)
AttemptedPhones(att) ==
  IF att = <<>> THEN <<>> ELSE <<Head(att).phone>> \o AttemptedPhones(Tail(att))

RECURSIVE FailedPhones(_)
FailedPhones(att) ==
  IF att = <<>> THEN <<>>
  ELSE (IF Delivered(Head(att).outcome) THEN <<>> ELSE <<Head(att).phone>>)
       \o FailedPhones(Tail(att))

RECURSIVE ErrorPhones(_)
ErrorPhones(errors) ==
  IF errors = <<>> THEN <<>> ELSE <<Head(errors)[1]>> \o ErrorPhones(Tail(errors))

\* The rows a call has appended to the delivery log.
RowsOf(call) == SubSeq(sms_logs, call.log_len + 1, Len(sms_logs))

\* The row an attempt is to leave: address, alert text, matching flag.
RowMatches(row, att, call) ==
  /\ row.phone = att.phone
  /\ row.message = "Hay cambios en la plataforma"
  /\ row.success = Delivered(att.outcome)
  /\ row.timestamp = call.time

\* The attempts of a call whose log write did not raise.
RECURSIVE Logged(_, _)
Logged(att, raised) ==
  IF att = <<>> THEN <<>>
  ELSE (IF Head(att).phone \in raised THEN <<>> ELSE <<Head(att)>>)
       \o Logged(Tail(att), raised)

C4_RecentRowSkips ==
  (Called /\ last_alert.configured /\ last_alert.recent)
  => /\ IsDedupSkip(last_alert.result)
     /\ last_alert.attempted = <<>>
     /\ RowsOf(last_alert) = <<>>

\* C4 amended: the same, provided the deduplication lookup does not raise
\* (a lookup that raises counts as "no recent alert" and the call goes on).
C4_RecentRowSkipsUnlessLookupRaises ==
  (/\ Called
   /\ last_alert.configured
   /\ last_alert.recent
   /\ "dedup" \notin last_alert.raised)
  => /\ IsDedupSkip(last_alert.result)
     /\ last_alert.attempted = <<>>
     /\ RowsOf(last_alert) = <<>>

C4_Witness ==
  /\ Called
  /\ last_alert.configured
  /\ last_alert.recent
  /\ last_alert.registered # <<>>
  /\ IsDedupSkip(last_alert.result)
  /\ RowsOf(last_alert) = <<>>

\* C6: with the transport not configured the call returns success=false
\* with the error text, whatever the log holds; no recipient is contacted
\* and the delivery log is unchanged.
C6_NotConfiguredFails ==
  (Called /\ ~last_alert.configured)
  => /\ IsConfigFailure(last_alert.result)
     /\ last_alert.attempted = <<>>
     /\ RowsOf(last_alert) = <<>>

C6_Witness ==
  /\ Called
  /\ ~last_alert.configured
  /\ last_alert.recent
  /\ last_alert.registered # <<>>
  /\ IsConfigFailure(last_alert.result)

\* C7: with the transport configured, the deduplication gate passed and no
\* recipient active, the call is skipped with reason "no_phones" and the
\* delivery log gains no row.
C7_NoRecipientsSkips ==
  (/\ Called
   /\ last_alert.configured
   /\ (~last_alert.recent \/ "dedup" \in last_alert.raised)
   /\ last_alert.registered = <<>>)
  => /\ IsNoPhonesSkip(last_alert.result)
     /\ last_alert.attempted = <<>>
     /\ RowsOf(last_alert) = <<>>

C7_Witness ==
  /\ Called
  /\ last_alert.configured
  /\ ~last_alert.recent
  /\ last_alert.registered = <<>>
  /\ phone_numbers # <<>>
  /\ IsNoPhonesSkip(last_alert.result)

\* C8: in a batch that reaches fan-out every active recipient is attempted
\* exactly once, a failure stops nothing, sent_count + failed_count is the
\* number of active recipients, failed_count is the number of failed
\* deliveries and errors has one entry per failed recipient.
C8_BatchAccounting ==
  (Called /\ IsBatch(last_alert.result))
  => LET r == last_alert.result
         att == last_alert.attempted
     IN /\ AttemptedPhones(att) = last_alert.registered
        /\ r.total_phones = Len(last_alert.registered)
        /\ r.sent_count + r.failed_count = Len(last_alert.registered)
        /\ r.failed_count = Len(FailedPhones(att))
        /\ ErrorPhones(r.errors) = FailedPhones(att)

C8_Witness ==
  /\ Called
  /\ IsBatch(last_alert.result)
  /\ Len(last_alert.attempted) >= 2
  /\ ~Delivered(last_alert.attempted[1].outcome)
  /\ last_alert.attempted[2].outcome = "ok"
  /\ last_alert.result.sent_count = Len(last_alert.attempted) - 1
  /\ last_alert.result.failed_count = 1

\* C9: the call returns success=false exactly when the configuration gate
\* stops it; a skip and a batch, even one whose deliveries all failed,
\* return success=true.
C9_SuccessUnlessNotConfigured ==
  Called => (Get(last_alert.result, "success", FALSE) = last_alert.configured)

C9_Witness ==
  /\ Called
  /\ IsBatch(last_alert.result)
  /\ last_alert.result.sent_count = 0
  /\ last_alert.result.failed_count = Len(last_alert.registered)
  /\ last_alert.result.success = TRUE

\* C10 as stated: every attempt of the fan-out, delivered, failed or
\* simulated, appends exactly one row with the recipient's address, the alert
\* text and the matching success flag: n attempts, n rows.
C10_OneRowPerAttempt ==
  (Called /\ IsBatch(last_alert.result))
  => /\ Len(RowsOf(last_alert)) = Len(last_alert.attempted)
     /\ \A i \in 1..Len(last_alert.attempted) :
          RowMatches(RowsOf(last_alert)[i], last_alert.attempted[i], last_alert)

\* C10 amended: every attempt whose log write does not raise appends exactly
\* one such row, in the order of the attempts; an attempt whose log write
\* raises appends none, so n attempts append at most n rows.
C10_OneRowPerLoggedAttempt ==
  (Called /\ IsBatch(last_alert.result))
  => LET logged == Logged(last_alert.attempted, last_alert.raised) IN
     /\ Len(RowsOf(last_alert)) = Len(logged)
     /\ \A i \in 1..Len(logged) :
          RowMatches(RowsOf(last_alert)[i], logged[i], last_alert)

C10_Witness ==
  /\ Called
  /\ IsBatch(last_alert.result)
  /\ Len(last_alert.attempted) = 2
  /\ last_alert.raised = {}
  /\ Len(RowsOf(last_alert)) = 2
  /\ ~RowsOf(last_alert)[1].success
  /\ RowsOf(last_alert)[2].success

\* C11: the deduplication decision depends only on the rows with
\* success=true, the exact alert text and a timestamp inside the window: a
\* call is skipped for deduplication only if such a row exists, and (the
\* transport configured, the lookup not raising) whenever one exists; rows
\* of failed deliveries, rows as old as the window or older and rows with
\* another text never cause a skip, so the call after a batch whose
\* deliveries all failed is not suppressed by that batch.
C11_OnlyRecentSuccessRowsSkip ==
  Called =>
    /\ IsDedupSkip(last_alert.result) => last_alert.recent
    /\ (last_alert.configured /\ "dedup" \notin last_alert.raised)
         => (IsDedupSkip(last_alert.result) <=> last_alert.recent)
    /\ (/\ last_alert.prev # NoCall
        /\ last_alert.prev.attempts > 0
        /\ last_alert.prev.ok_rows = 0
        /\ \A i \in 1..last_alert.prev.log_len : ~sms_logs[i].success)
         => ~IsDedupSkip(last_alert.result)

C11_Witness ==
  /\ Called
  /\ IsBatch(last_alert.result)
  /\ last_alert.attempted # <<>>
  /\ last_alert.prev # NoCall
  /\ last_alert.prev.attempts > 0
  /\ last_alert.prev.ok_rows = 0
  /\ \E i \in 1..last_alert.log_len :
       /\ sms_logs[i].success
       /\ sms_logs[i].message = "Hay cambios en la plataforma"
       /\ last_alert.time - sms_logs[i].timestamp = 5
  /\ \E i \in 1..last_alert.log_len :
       /\ sms_logs[i].success
       /\ sms_logs[i].message # "Hay cambios en la plataforma"
  /\ \E i \in 1..last_alert.log_len :
       /\ ~sms_logs[i].success
       /\ sms_logs[i].message = "Hay cambios en la plataforma"
       /\ sms_logs[i].timestamp = last_alert.time

(* ------------------------------------------------------------------ *)
(* Properties of the recipient addresses                                *)
(* ------------------------------------------------------------------ *)
DigitChars == {"0", "1", "2", "3", "4", "5", "6", "7", "8", "9"}

\* s after removing every character that is not a digit or '+'.
RECURSIVE Kept(_)
Kept(s) ==
  IF s = <<>> THEN <<>>
  ELSE (IF Head(s) \in DigitChars \cup {"+"} THEN <<Head(s)>> ELSE <<>>)
       \o Kept(Tail(s))

\* c is '+' followed by lo to hi digits; c is exactly ten digits.
PlusAndDigits(c, lo, hi) ==
  /\ c # <<>>
  /\ Head(c) = "+"
  /\ Range(Tail(c)) \subseteq DigitChars
  /\ Len(Tail(c)) \in lo..hi
TenDigits(c) == Len(c) = 10 /\ Range(c) \subseteq DigitChars

Canonical573001234567 ==
  <<"+", "5", "7", "3", "0", "0", "1", "2", "3", "4", "5", "6", "7">>

\* C17: with c = s without the characters that are neither digits nor '+',
\* validate_phone_number(s) is (valid, c) when c is '+' and 10 to 15 digits,
\* (valid, '+57' c) when c is exactly 10 digits and (invalid, s) otherwise;
\* every valid result is '+' followed by 10 to 15 digits, and "3001234567"
\* and "+57 300 123 4567" both give "+573001234567".
C17_ValidateNormalizes ==
  last_reg.op = "validate" =>
    LET s == last_reg.phone
        c == Kept(s)
        ret == last_reg.ret
    IN /\ PlusAndDigits(c, 10, 15) => ret = <<TRUE, c>>
       /\ TenDigits(c) => ret = <<TRUE, <<"+", "5", "7">> \o c>>
       /\ (~PlusAndDigits(c, 10, 15) /\ ~TenDigits(c)) => ret = <<FALSE, s>>
       /\ ret[1] => PlusAndDigits(ret[2], 10, 15)
       /\ s \in {Local3001234567, Spaced573001234567}
            => /\ ret = <<TRUE, Canonical573001234567>>
               /\ Join(ret[2]) = "+573001234567"

C17_Witness ==
  /\ last_reg.op = "validate"
  /\ last_reg.phone = Spaced573001234567
  /\ last_reg.ret = <<TRUE, Canonical573001234567>>

(* ------------------------------------------------------------------ *)
(* Properties of register / unregister (checked under SpecRegistry)    *)
(* ------------------------------------------------------------------ *)
\* The address s passes validation; its canonical (normalized) form.
ValidInput(s) == PlusAndDigits(Kept(s), 10, 15) \/ TenDigits(Kept(s))
CanonicalOf(s) ==
  IF TenDigits(Kept(s)) THEN "+57" \o Join(Kept(s)) ELSE Join(Kept(s))

\* The rows of a table that hold the address p.
RowsFor(table, p) == {i \in 1..Len(table) : table[i].phone = p}

Registering == last_reg.op = "register"
Unregistering == last_reg.op = "unregister"

\* C12: after any sequence of register and unregister calls the table holds
\* at most one row, active or not, for each canonical address, and every
\* address it holds is in canonical form.
C12_OneRowPerCanonicalAddress ==
  /\ \A i, j \in 1..Len(phone_numbers) :
        phone_numbers[i].phone = phone_numbers[j].phone => i = j
  /\ \A i \in 1..Len(phone_numbers) :
        phone_numbers[i].phone \in {CanonicalOf(s) : s \in {t \in RegisterInputs : ValidInput(t)}}

C12_Witness ==
  /\ Len(phone_numbers) = 2
  /\ Registering
  /\ last_reg.phone = Spaced573001234567
  /\ last_reg.result.success
  /\ last_reg.prev # NoReg
  /\ last_reg.prev.op = "unregister"
  /\ last_reg.prev.phone = Local3001234567
  /\ last_reg.prev.result.success

\* C13: registering an address whose canonical form has an active row
\* returns success=false and leaves the table unchanged, also when the
\* address is spelled differently from the earlier registration; the error
\* is the duplicate one unless the session raised.
C13_ActiveDuplicateRejected ==
  (/\ Registering
   /\ ValidInput(last_reg.phone)
   /\ \E i \in RowsFor(last_reg.before, CanonicalOf(last_reg.phone)) :
        last_reg.before[i].active)
  => /\ last_reg.result.success = FALSE
     /\ phone_numbers = last_reg.before
     /\ last_reg.raised = {}
          => last_reg.result.error = "Phone number already registered and active"

C13_Witness ==
  /\ Registering
  /\ last_reg.phone = Spaced573001234567
  /\ last_reg.result = [success |-> FALSE,
                        error |-> "Phone number already registered and active"]
  /\ last_reg.prev # NoReg
  /\ last_reg.prev.op = "register"
  /\ last_reg.prev.phone = Local3001234567
  /\ last_reg.prev.result.success
  /\ phone_numbers = last_reg.before

\* The table before the call with row i reactivated at the time of the call.
Reactivated(call, i) ==
  [call.before EXCEPT ![i].active = TRUE, ![i].registered_at = call.time]

\* C14 as stated: registering an address whose row exists and is inactive
\* sets active to true and the registration timestamp to the time of the
\* call in that same row, returns success and leaves the number of rows
\* unchanged.
C14_InactiveReactivated ==
  (/\ Registering
   /\ ValidInput(last_reg.phone)
   /\ \E i \in RowsFor(last_reg.before, CanonicalOf(last_reg.phone)) :
        ~last_reg.before[i].active)
  => /\ last_reg.result.success = TRUE
     /\ Len(phone_numbers) = Len(last_reg.before)
     /\ \E i \in RowsFor(last_reg.before, CanonicalOf(last_reg.phone)) :
          phone_numbers = Reactivated(last_reg, i)

\* C14 amended: the same when the session does not raise; when it raises
\* the call returns success=false and the table is unchanged.  In both
\* cases the number of rows does not change.
C14_InactiveReactivatedUnlessSessionRaises ==
  (/\ Registering
   /\ ValidInput(last_reg.phone)
   /\ \E i \in RowsFor(last_reg.before, CanonicalOf(last_reg.phone)) :
        ~last_reg.before[i].active)
  => /\ Len(phone_numbers) = Len(last_reg.before)
     /\ IF last_reg.raised = {}
        THEN /\ last_reg.result.success = TRUE
             /\ last_reg.result.phone = CanonicalOf(last_reg.phone)
             /\ \E i \in RowsFor(last_reg.before, CanonicalOf(last_reg.phone)) :
                  phone_numbers = Reactivated(last_reg, i)
        ELSE /\ last_reg.result = [success |-> FALSE,
                                   error |-> "Database error occurred"]
             /\ phone_numbers = last_reg.before

C14_Witness ==
  /\ Registering
  /\ last_reg.result.success
  /\ Len(last_reg.before) = 2
  /\ \E i \in RowsFor(last_reg.before, CanonicalOf(last_reg.phone)) :
       /\ ~last_reg.before[i].active
       /\ phone_numbers[i].active
       /\ last_reg.before[i].registered_at < last_reg.time
       /\ phone_numbers[i].registered_at = last_reg.time
  /\ Len(phone_numbers) = 2

\* C16: register with an address that fails validation returns
\* success=false with the format error and creates or modifies no row.
C16_InvalidAddressRejected ==
  (Registering /\ ~ValidInput(last_reg.phone))
  => /\ last_reg.result.success = FALSE
     /\ last_reg.result.error =
          "Invalid phone number format. Use E.164 format (+573001234567)"
     /\ phone_numbers = last_reg.before

C16_Witness ==
  /\ Registering
  /\ last_reg.phone = <<"1", "2", "3">>
  /\ last_reg.result.success = FALSE
  /\ Len(last_reg.before) = 2
  /\ phone_numbers = last_reg.before

\* The stored addresses in row order; a is an initial part of b.
Stored(table) == [i \in 1..Len(table) |-> table[i].phone]
IsPrefixOf(a, b) == Len(a) <= Len(b) /\ SubSeq(b, 1, Len(a)) = a

\* A step that is a call of unregister_phone_number.
UnregisterStep == last_reg' # last_reg /\ last_reg'.op = "unregister"

\* An alert sent now, in dry-run mode or not and whatever the transport
\* answers, attempts no address whose row is inactive.
InactiveNotAlerted ==
  \A dry \in BOOLEAN : \A deliver \in DeliverInputs(dry) :
     \A sent \in {send_change_alert("pq23", FakeNewSectors, dry, deliver, {})} :
     /\ IsBatch(sent.result) \/ IsNoPhonesSkip(sent.result)
     /\ \A i \in 1..Len(phone_numbers) :
          ~phone_numbers[i].active =>
             phone_numbers[i].phone \notin Range(AttemptedPhones(sent.call.attempted))

\* No operation removes a stored address.
NeverRemoved == IsPrefixOf(Stored(phone_numbers), Stored(phone_numbers'))

\* C15 as stated: unregister of a (valid) address that has a row returns
\* success and sets active to false in that row, unregister of one that has
\* no row returns success=false with the not-found error and changes
\* nothing; no operation removes a row, and an inactive address is attempted
\* by no alert.
C15_UnregisterDeactivates ==
  /\ []InactiveNotAlerted
  /\ [][/\ NeverRemoved
        /\ (UnregisterStep /\ ValidInput(last_reg'.phone)) =>
          LET rows == RowsFor(phone_numbers, CanonicalOf(last_reg'.phone)) IN
          IF rows # {}
          THEN /\ last_reg'.result.success = TRUE
               /\ \E i \in rows :
                    phone_numbers' = [phone_numbers EXCEPT ![i].active = FALSE]
          ELSE /\ last_reg'.result = [success |-> FALSE,
                                      error |-> "Phone number not found"]
               /\ phone_numbers' = phone_numbers]_vars

\* C15 amended: the same when the session does not raise; when it raises,
\* unregister returns success=false with the database error and changes
\* nothing, and for an address that fails validation it returns
\* success=false with the format error and changes nothing.
C15_UnregisterDeactivatesUnlessSessionRaises ==
  /\ []InactiveNotAlerted
  /\ [][/\ NeverRemoved
        /\ UnregisterStep =>
          LET rows == RowsFor(phone_numbers, CanonicalOf(last_reg'.phone)) IN
          IF ~ValidInput(last_reg'.phone)
          THEN /\ last_reg'.result = [success |-> FALSE,
                                      error |-> "Invalid phone number format"]
               /\ phone_numbers' = phone_numbers
          ELSE IF last_reg'.raised # {}
          THEN /\ last_reg'.result = [success |-> FALSE,
                                      error |-> "Database error occurred"]
               /\ phone_numbers' = phone_numbers
          ELSE IF rows # {}
          THEN /\ last_reg'.result.success = TRUE
               /\ \E i \in rows :
                    phone_numbers' = [phone_numbers EXCEPT ![i].active = FALSE]
          ELSE /\ last_reg'.result = [success |-> FALSE,
                                      error |-> "Phone number not found"]
               /\ phone_numbers' = phone_numbers]_vars

C15_Witness ==
  /\ Unregistering
  /\ last_reg.result.success
  /\ last_reg.before = <<[phone |-> "+573007654321", registered_at |-> 0,
                          active |-> TRUE],
                         [phone |-> "+573001234567", registered_at |-> 0,
                          active |-> TRUE]>>
  /\ phone_numbers = [last_reg.before EXCEPT ![2].active = FALSE]
  /\ \A deliver \in DeliverInputs(FALSE) :
       AttemptedPhones(send_change_alert("pq23", FakeNewSectors, FALSE, deliver,
                                         {}).call.attempted)
         = <<"+573007654321">>

(* ------------------------------------------------------------------ *)
(* Properties of the comparison of snapshots (checked under SpecDiff)   *)
(* ------------------------------------------------------------------ *)
Detected == last_diff.op = "detect"

\* Every sector id a snapshot may hold.
AnySector == {SectorNames[i] : i \in 1..Len(SectorNames)}

\* C18: for previous A and current B, new_sectors holds exactly the items
\* in B and not in A, removed_sectors those in A and not in B,
\* unchanged_sectors those in both; total_previous = |A|, total_current = |B|.
C18_DiffIsSetDifference ==
  Detected =>
    LET A == last_diff.previous
        B == last_diff.current
        d == last_diff.change_info
    IN /\ \A x \in AnySector :
            /\ x \in d.new_sectors <=> (x \in B /\ x \notin A)
            /\ x \in d.removed_sectors <=> (x \in A /\ x \notin B)
            /\ x \in d.unchanged_sectors <=> (x \in A /\ x \in B)
       /\ (d.new_sectors \cup d.removed_sectors \cup d.unchanged_sectors)
            \subseteq AnySector
       /\ d.total_previous = Cardinality(A)
       /\ d.total_current = Cardinality(B)

C18_Witness ==
  /\ Detected
  /\ last_diff.previous = {"sector_a1", "sector_b2"}
  /\ last_diff.current = {"sector_b2", "sector_c3"}
  /\ last_diff.change_info.new_sectors = {"sector_c3"}
  /\ last_diff.change_info.removed_sectors = {"sector_a1"}
  /\ last_diff.change_info.unchanged_sectors = {"sector_b2"}

\* C19: has_changes is true exactly when new_sectors or removed_sectors is
\* non-empty, that is exactly when A differs from B; for A = B it is false,
\* new and removed are empty and unchanged is A.
C19_HasChangesIffDifferent ==
  Detected =>
    LET A == last_diff.previous
        B == last_diff.current
        d == last_diff.change_info
    IN /\ d.has_changes <=> (d.new_sectors # {} \/ d.removed_sectors # {})
       /\ d.has_changes <=> (A # B)
       /\ (A = B) => /\ d.has_changes = FALSE
                     /\ d.new_sectors = {}
                     /\ d.removed_sectors = {}
                     /\ d.unchanged_sectors = A

C19_Witness ==
  /\ Detected
  /\ last_diff.previous = {"sector_a1", "sector_b2"}
  /\ last_diff.current = last_diff.previous
  /\ last_diff.change_info.has_changes = FALSE
  /\ last_diff.change_info.unchanged_sectors = {"sector_a1", "sector_b2"}

\* C20: should_send_alert(detect_changes(A, B)) is true exactly when some
\* item of B is not in A; when B is a proper subset of A no alert is due
\* although has_changes is true.
C20_AlertIffNewItems ==
  Detected =>
    LET A == last_diff.previous
        B == last_diff.current
    IN /\ last_diff.alert <=> (\E x \in B : x \notin A)
       /\ (B \subseteq A /\ B # A)
            => (~last_diff.alert /\ last_diff.change_info.has_changes)

C20_Witness ==
  /\ Detected
  /\ last_diff.previous = {"sector_a1", "sector_b2"}
  /\ last_diff.current = {"sector_b2"}
  /\ last_diff.change_info.has_changes = TRUE
  /\ last_diff.alert = FALSE

(* ------------------------------------------------------------------ *)
(* Properties of the sector parser (checked under SpecParse)            *)
(* ------------------------------------------------------------------ *)
Parsed == last_parse.op = "normalize"

\* A field of a raw item, lower-cased; a missing field is empty.
Field(item, key) == IF key \in DOMAIN item THEN lower(item[key]) ELSE <<>>

\* The text contains one of the words, as a substring.
HasAny(words, text) == \E w \in words : Contains(w, text)

\* The words of a text: its maximal runs of characters other than spaces.
RECURSIVE Words(_)
Words(text) ==
  IF text = <<>> THEN {}
  ELSE IF Head(text) = " " THEN Words(Tail(text))
  ELSE LET stops == {i \in 1..Len(text) : text[i] = " "}
           n == IF stops = {} THEN Len(text) + 1
                ELSE CHOOSE i \in stops : \A j \in stops : i <= j
       IN {SubSeq(text, 1, n - 1)} \cup Words(SubSeq(text, n, Len(text)))

\* "disponible", "available", "selectable", "enabled"
AvailableSynonyms ==
  {<<"d", "i", "s", "p", "o", "n", "i", "b", "l", "e">>,
   <<"a", "v", "a", "i", "l", "a", "b", "l", "e">>,
   <<"s", "e", "l", "e", "c", "t", "a", "b", "l", "e">>,
   <<"e", "n", "a", "b", "l", "e", "d">>}
\* "no disponible", "unavailable", "disabled", "sold out", "agotado"
UnavailableSynonyms ==
  {<<"n", "o", " ", "d", "i", "s", "p", "o", "n", "i", "b", "l", "e">>,
   <<"u", "n", "a", "v", "a", "i", "l", "a", "b", "l", "e">>,
   <<"d", "i", "s", "a", "b", "l", "e", "d">>,
   <<"s", "o", "l", "d", " ", "o", "u", "t">>,
   <<"a", "g", "o", "t", "a", "d", "o">>}

\* What each signal of an item says, reading "contains" as the code does
\* (a substring of the lower-cased field; the status by its whole value).
LabelAvailable(item) == HasAny(AvailableSynonyms, Field(item, "aria_label"))
LabelUnavailable(item) ==
  /\ ~LabelAvailable(item)
  /\ HasAny(UnavailableSynonyms, Field(item, "aria_label"))
ClassAvailable(item) ==
  HasAny({<<"a", "v", "a", "i", "l", "a", "b", "l", "e">>, <<"s", "e", "l", "e", "c", "t", "a", "b", "l", "e">>}, Field(item, "class_names"))
ClassUnavailable(item) ==
  /\ ~ClassAvailable(item)
  /\ HasAny({<<"d", "i", "s", "a", "b", "l", "e", "d">>, <<"u", "n", "a", "v", "a", "i", "l", "a", "b", "l", "e">>}, Field(item, "class_names"))
StatusAvailable(item) ==
  Field(item, "data_status") \in {<<"a", "v", "a", "i", "l", "a", "b", "l", "e">>, <<"e", "n", "a", "b", "l", "e", "d">>, <<"s", "e", "l", "e", "c", "t", "a", "b", "l", "e">>}
StatusUnavailable(item) ==
  Field(item, "data_status") \in {<<"u", "n", "a", "v", "a", "i", "l", "a", "b", "l", "e">>, <<"d", "i", "s", "a", "b", "l", "e", "d">>, <<"s", "o", "l", "d", "-", "o", "u", "t">>}
ColorAvailable(item) ==
  \E field \in {"style", "fill"} :
    HasAny({<<"b", "l", "u", "e">>, <<"#", "0", "0", "6", "6", "c", "c">>, <<"#", "0", "0", "7", "b", "f", "f">>}, Field(item, field))
ColorUnavailable(item) ==
  /\ ~ColorAvailable(item)
  /\ \E field \in {"style", "fill"} :
       HasAny({<<"g", "r", "a", "y">>, <<"g", "r", "e", "y">>, <<"#", "c", "c", "c", "c", "c", "c">>, <<"#", "9", "9", "9", "9", "9", "9">>}, Field(item, field))
LabelDecides(item) == LabelAvailable(item) \/ LabelUnavailable(item)
ClassDecides(item) == ClassAvailable(item) \/ ClassUnavailable(item)
StatusDecides(item) == StatusAvailable(item) \/ StatusUnavailable(item)
ColorDecides(item) == ColorAvailable(item) \/ ColorUnavailable(item)

\* The identifier of item i is in the output for no other reason than
\* another item that yields the same identifier.
Excluded(i) ==
  \/ Join(last_parse.sector_id[i].id) \notin last_parse.result
  \/ \E j \in 1..Len(last_parse.raw_sectors) :
       /\ j # i
       /\ last_parse.available[j]
       /\ last_parse.sector_id[j].id = last_parse.sector_id[i].id

C23_UnavailableLabelExcluded ==
  Parsed =>
    \A i \in 1..Len(last_parse.raw_sectors) :
      HasAny(UnavailableSynonyms, Field(last_parse.raw_sectors[i], "aria_label"))
        => /\ ~last_parse.available[i]
           /\ Excluded(i)

\* What the parser does instead: of the two items of the test both are
\* classified available and both are returned.
C23_Witness ==
  /\ Parsed
  /\ last_parse.raw_sectors = LabelTestList
  /\ Join(last_parse.raw_sectors[2].aria_label) = "Sector B - No disponible"
  /\ last_parse.available = <<TRUE, TRUE>>
  /\ last_parse.result = {"sector_1", "sector_2"}

\* C24: for an item whose label decides nothing, a class with the token
\* "disabled" or "unavailable" and without the tokens "available" and
\* "selectable" makes the item unavailable, so it is not in the output; the
\* class "sector disabled unavailable" is excluded.
C24_DisabledClassExcluded ==
  Parsed =>
    \A i \in 1..Len(last_parse.raw_sectors) :
      LET item == last_parse.raw_sectors[i]
          tokens == Words(Field(item, "class_names"))
      IN (/\ ~HasAny(AvailableSynonyms, Field(item, "aria_label"))
          /\ ~HasAny(UnavailableSynonyms, Field(item, "aria_label"))
          /\ tokens \cap {<<"d", "i", "s", "a", "b", "l", "e", "d">>, <<"u", "n", "a", "v", "a", "i", "l", "a", "b", "l", "e">>} # {}
          /\ tokens \cap {<<"a", "v", "a", "i", "l", "a", "b", "l", "e">>, <<"s", "e", "l", "e", "c", "t", "a", "b", "l", "e">>} = {})
         => /\ ~last_parse.available[i]
            /\ Excluded(i)

\* What the parser does instead: of the two items of the test the one with
\* the class "sector disabled unavailable" is classified available as well,
\* and returned.
C24_Witness ==
  /\ Parsed
  /\ last_parse.raw_sectors = ClassTestList
  /\ Join(last_parse.raw_sectors[2].class_names) = "sector disabled unavailable"
  /\ last_parse.available = <<TRUE, TRUE>>
  /\ last_parse.result = {"sector_1", "sector_2"}

\* C25: classification is fail-closed: an item for which none of the four
\* signals matches, an item with all fields missing or empty included, is
\* classified unavailable and is not in the output.
C25_FailClosed ==
  Parsed =>
    \A i \in 1..Len(last_parse.raw_sectors) :
      LET item == last_parse.raw_sectors[i] IN
      (/\ ~LabelDecides(item)
       /\ ~ClassDecides(item)
       /\ ~StatusDecides(item)
       /\ ~ColorDecides(item))
      => /\ ~last_parse.available[i]
         /\ Excluded(i)
         /\ (Len(last_parse.raw_sectors) = 1 => last_parse.result = {})

\* An item with an id, the label "Sector C", the class "sector" and the
\* status "available now", which is no value of the status signal.
C25_Witness ==
  /\ Parsed
  /\ Len(last_parse.raw_sectors) = 1
  /\ Join(Get(last_parse.raw_sectors[1], "id", <<>>)) = "sector_1"
  /\ Join(Get(last_parse.raw_sectors[1], "aria_label", <<>>)) = "Sector C"
  /\ Join(Get(last_parse.raw_sectors[1], "class_names", <<>>)) = "sector"
  /\ Join(Get(last_parse.raw_sectors[1], "data_status", <<>>)) = "available now"
  /\ Get(last_parse.raw_sectors[1], "style", <<>>) = <<>>
  /\ Get(last_parse.raw_sectors[1], "fill", <<>>) = <<>>
  /\ last_parse.available = <<FALSE>>
  /\ last_parse.result = {}

\* The source of the identifier of an item: the first non-empty of id,
\* secondary id, section, label, title and trimmed text.
RECURSIVE Trimmed(_)
Trimmed(text) ==
  IF text = <<>> THEN text
  ELSE IF Head(text) \in {" ", "\t"} THEN Trimmed(Tail(text))
  ELSE IF text[Len(text)] \in {" ", "\t"}
  THEN Trimmed(SubSeq(text, 1, Len(text) - 1))
  ELSE text
RawField(item, key) == IF key \in DOMAIN item THEN item[key] ELSE <<>>
Candidates(item) ==
  <<RawField(item, "id"), RawField(item, "data_sector_id"),
    RawField(item, "data_section"), RawField(item, "aria_label"),
    RawField(item, "title"), Trimmed(RawField(item, "text_content"))>>
Source(item) ==
  LET c == Candidates(item)
      filled == {k \in 1..Len(c) : c[k] # <<>>}
  IN IF filled = {} THEN <<>>
     ELSE c[CHOOSE k \in filled : \A j \in filled : k <= j]

IsLetter(c) == \E k \in 1..Len(UpperCase) : c = UpperCase[k] \/ c = LowerCase[k]
IsBlank(c) == c \in {" ", "\t"}

\* Each run of whitespace replaced by one underscore.
RECURSIVE Underscored(_)
Underscored(text) ==
  IF text = <<>> THEN <<>>
  ELSE IF IsBlank(Head(text))
  THEN IF Len(text) > 1 /\ IsBlank(text[2]) THEN Underscored(Tail(text))
       ELSE <<"_">> \o Underscored(Tail(text))
  ELSE <<Head(text)>> \o Underscored(Tail(text))

\* The cleanup as stated, and as amended.
CleanupAsStated(text) ==
  lower(Underscored(SelectSeq(text, LAMBDA c :
          IsLetter(c) \/ IsDigit(c) \/ IsBlank(c) \/ c = "-")))
CleanupAmended(text) ==
  lower(Underscored(Trimmed(SelectSeq(text, LAMBDA c :
          IsLetter(c) \/ IsDigit(c) \/ c = "_" \/ IsBlank(c) \/ c = "-"))))

\* The items classified available, by position.
AvailableItems ==
  {i \in 1..Len(last_parse.raw_sectors) : last_parse.available[i]}

\* C26 as stated: the identifier of an available item is its source with
\* every character that is not a letter, digit, whitespace or hyphen
\* removed, each run of whitespace replaced by one underscore, lower-cased;
\* the output holds these identifiers except the empty ones.
C26_IdentifierCleanup ==
  Parsed =>
    /\ \A i \in AvailableItems :
         last_parse.sector_id[i].id
           = CleanupAsStated(Source(last_parse.raw_sectors[i]))
    /\ last_parse.result
         = {Join(CleanupAsStated(Source(last_parse.raw_sectors[i]))) :
              i \in {j \in AvailableItems :
                       CleanupAsStated(Source(last_parse.raw_sectors[j])) # <<>>}}

\* C26 amended: underscores are kept as well, and the whitespace at both
\* ends is removed after the removal of the other characters, before the
\* runs of whitespace are replaced.
C26_IdentifierCleanupKeepsUnderscore ==
  Parsed =>
    /\ \A i \in AvailableItems :
         last_parse.sector_id[i].id
           = CleanupAmended(Source(last_parse.raw_sectors[i]))
    /\ last_parse.result
         = {Join(CleanupAmended(Source(last_parse.raw_sectors[i]))) :
              i \in {j \in AvailableItems :
                       CleanupAmended(Source(last_parse.raw_sectors[j])) # <<>>}}

C26_Witness ==
  /\ Parsed
  /\ Len(last_parse.raw_sectors) = 1
  /\ Join(Get(last_parse.raw_sectors[1], "id", <<>>)) = "Sector A-1 (Premium)!"
  /\ Get(last_parse.raw_sectors[1], "title", <<>>) # <<>>
  /\ last_parse.available = <<TRUE>>
  /\ last_parse.result = {"sector_a-1_premium"}

(* ------------------------------------------------------------------ *)
(* Properties of the monitoring cycles (checked under Spec)             *)
(* ------------------------------------------------------------------ *)
Cycled == last_cycle # NoCycle

\* A completed per-target cycle whose diff has new items: a change.
Change == Cycled /\ last_cycle.success /\ last_cycle.new_sectors # {}

\* The number of attempts a call made for one address, and of those that
\* delivered a message to it.
Attempts(call, p) ==
  Cardinality({i \in 1..Len(call.attempted) : call.attempted[i].phone = p})
Notified(call, p) ==
  Cardinality({i \in 1..Len(call.attempted) :
                 /\ call.attempted[i].phone = p
                 /\ call.attempted[i].outcome = "ok"})

C2_CyclesNeverOverlap ==
  [][/\ Len(instances') <= 1
     /\ (Len(instances) >= 1 /\ triggers'.fired > triggers.fired)
          => /\ triggers'.dropped = triggers.dropped + 1
             /\ UNCHANGED <<instances, sms_logs, snapshots, change_logs,
                            last_checked, last_cycle, last_alert>>]_vars

C2_Witness ==
  /\ triggers.dropped >= 1
  /\ Len(instances) = 1
  /\ instances[1].pc = "monitor"
  /\ instances[1].idx = 2

\* C5 as stated: after an alert for one target with at least one successful
\* delivery, an alert for another target with other new items requested
\* within the deduplication window is skipped for deduplication and reaches
\* no recipient.
C5_OtherTargetSuppressed ==
  (/\ Change
   /\ last_cycle.alert.prev # NoCall
   /\ last_cycle.alert.prev.event_id # last_cycle.event_id
   /\ last_cycle.alert.prev.ok_rows > 0
   /\ last_cycle.alert.time - last_cycle.alert.prev.time < 5)
  => /\ IsDedupSkip(last_cycle.alert.result)
     /\ last_cycle.alert.attempted = <<>>

\* C5 amended: the same, provided the deduplication lookup of the second
\* alert does not raise.
C5_OtherTargetSuppressedUnlessLookupRaises ==
  (/\ Change
   /\ last_cycle.alert.prev # NoCall
   /\ last_cycle.alert.prev.event_id # last_cycle.event_id
   /\ last_cycle.alert.prev.ok_rows > 0
   /\ last_cycle.alert.time - last_cycle.alert.prev.time < 5
   /\ "dedup" \notin last_cycle.alert.raised)
  => /\ IsDedupSkip(last_cycle.alert.result)
     /\ last_cycle.alert.attempted = <<>>

C5_Witness ==
  /\ Change
  /\ last_cycle.alert.prev # NoCall
  /\ last_cycle.alert.prev.event_id # last_cycle.event_id
  /\ last_cycle.alert.prev.new_sectors # last_cycle.new_sectors
  /\ last_cycle.alert.prev.ok_rows > 0
  /\ last_cycle.alert.time - last_cycle.alert.prev.time = 4
  /\ last_cycle.alert.registered # <<>>
  /\ IsDedupSkip(last_cycle.alert.result)

\* A per-target cycle whose observation succeeded for a target that had no
\* stored snapshot when the cycle began.
FirstCycle ==
  /\ Cycled
  /\ last_cycle.scraped.kind = "list"
  /\ ~last_cycle.had_snapshot

\* C21: on the first cycle of a target (no stored snapshot) the previous
\* set is empty: every identifier observed is reported as new, none as
\* removed, and when something was observed send_change_alert is called for
\* that target with all of it.
C21_FirstCycleReportsAllNew ==
  FirstCycle =>
    LET current == last_cycle.scraped.sectors
        d == last_cycle.change_info
    IN /\ d.total_previous = 0
       /\ d.new_sectors = current
       /\ d.removed_sectors = {}
       /\ last_cycle.new_sectors = current
       /\ (current # {}) => /\ last_cycle.alert # NoCall
                            /\ last_cycle.alert.event_id = last_cycle.event_id
                            /\ last_cycle.alert.new_sectors = current
       /\ (current = {}) => last_cycle.alert = NoCall

C21_Witness ==
  /\ FirstCycle
  /\ last_cycle.event_id = "pq24"
  /\ \E i \in 1..Len(snapshots) : /\ snapshots[i].event_id = "pq23"
                                  /\ snapshots[i].sectors = {"sector_a1"}
  /\ last_cycle.scraped.sectors = {"sector_a1", "sector_b2"}
  /\ last_cycle.change_info.new_sectors = {"sector_a1", "sector_b2"}
  /\ last_cycle.alert # NoCall

(* ------------------------------------------------------------------ *)
(* Properties of the scheduler and of one cycle (checked under          *)
(* SpecService)                                                         *)
(* ------------------------------------------------------------------ *)
\* C27: the delay before each scheduled run lies within
\* [POLL_INTERVAL_MIN, POLL_INTERVAL_MAX] and is drawn anew for every run:
\* the interval has been drawn at least once for each delay the job has
\* waited, so that two successive delays can differ.
C27_DelayDrawnForEveryRun ==
  /\ \A i \in 1..Len(job.delays) : job.delays[i] \in 90..150
  /\ job.draws >= Len(job.delays)

\* What the job does instead: two runs were scheduled after one draw, and
\* both waited the same delay.
C27_Witness ==
  /\ Len(job.delays) = 2
  /\ job.draws = 1
  /\ job.delays[1] = job.delays[2]
  /\ job.delays[1] \in 90..150

\* The period of the job is fixed when the scheduler starts: every delay of
\* one running scheduler is the interval drawn then, within the range.
C27_FixedPeriod ==
  /\ running => job.interval \in 90..150
  /\ job.draws <= 1
  /\ \A i \in 1..Len(job.delays) : job.delays[i] = job.interval

\* The instances of monitor_all_events that are at a per-target cycle, and
\* those that wait for the delay after one.
AtTarget == {k \in 1..Len(instances) : instances[k].pc = "monitor"}
Delaying == {k \in 1..Len(instances) : instances[k].pc = "sleep"}

\* C28: within one cycle the targets are processed one at a time in
\* configuration order.  A cycle starts at the first target; a step runs the
\* per-target cycle of one target only, the one at the position of the
\* loop, and is followed by the delay; the loop moves to the next position
\* only when the delay has elapsed, and returns only after the delay of the
\* last target; at no time are two per-target cycles in progress.
C28_TargetsOneAtATime ==
  /\ [](Cardinality(AtTarget) <= 1 /\ Len(instances) <= 1)
  /\ [][/\ (runs' # runs) =>
             /\ runs' = runs + 1
             /\ \E k \in AtTarget :
                  /\ last_cycle'.event_id = EVENTS[instances[k].idx]
                  /\ instances' = [instances EXCEPT ![k].pc = "sleep"]
        /\ (Len(instances') > Len(instances)) =>
             /\ instances = <<>>
             /\ instances' = <<[idx |-> 1, pc |-> "monitor"]>>
        /\ (Len(instances') < Len(instances)) =>
             /\ instances' = <<>>
             /\ instances[1] = [idx |-> Len(EVENTS), pc |-> "sleep"]
        /\ \A k \in 1..Len(instances) :
             (k \in 1..Len(instances') /\ instances'[k] # instances[k]) =>
               \/ /\ k \in AtTarget
                  /\ runs' = runs + 1
                  /\ instances'[k] = [instances[k] EXCEPT !.pc = "sleep"]
               \/ /\ k \in Delaying
                  /\ runs' = runs
                  /\ instances'[k] = [idx |-> instances[k].idx + 1,
                                      pc |-> "monitor"]]_vars

C28_Witness ==
  /\ Len(instances) = 1
  /\ instances[1] = [idx |-> 2, pc |-> "monitor"]
  /\ runs = 1
  /\ last_cycle.event_id = "pq23"
  /\ last_cycle.position = 1

\* A step that runs a per-target cycle whose observation fails: the scrape
\* returns None or raises.
ObservationFails ==
  /\ runs' # runs
  /\ last_cycle'.scraped.kind \in {"none", "raise"}

C30_FailedSnapshotNotSuccess ==
  (Cycled /\ "save_snapshot" \in last_cycle.raised)
    => last_cycle.success # TRUE

\* What the cycle does instead: the write of the snapshot raised, no
\* snapshot of the target is stored, and the result has success=true.
C30_Witness ==
  /\ Cycled
  /\ "save_snapshot" \in last_cycle.raised
  /\ last_cycle.scraped.sectors = {"sector_a1"}
  /\ \A i \in 1..Len(snapshots) : snapshots[i].event_id # last_cycle.event_id
  /\ last_cycle.success = TRUE
  /\ last_cycle.error = "None"

(* ------------------------------------------------------------------ *)
(* Properties of one per-target cycle (checked under Spec and           *)
(* SpecService)                                                         *)
(* ------------------------------------------------------------------ *)
\* A step that runs a per-target cycle whose observation succeeds.
ObservationSucceeds ==
  /\ runs' # runs
  /\ last_cycle'.scraped.kind = "list"

\* The snapshot and the timestamp such a cycle is to leave.
SnapshotOfCycle ==
  [event_id |-> last_cycle'.event_id, sectors |-> last_cycle'.scraped.sectors,
   timestamp |-> clock]
SnapshotPersisted == snapshots' = Append(snapshots, SnapshotOfCycle)
TimestampUpdated ==
  last_checked' = [last_checked EXCEPT ![last_cycle'.event_id] = clock]

ChangeRecords ==
  {[event_id |-> last_cycle'.event_id, new_sectors |-> last_cycle'.new_sectors,
    timestamp |-> clock, sms_sent |-> flag] : flag \in BOOLEAN}
OneChangeRecord == \E rec \in ChangeRecords : change_logs' = Append(change_logs, rec)

\* C33 as stated: a per-target cycle whose new-items set is non-empty
\* creates exactly one change record, a cycle whose new-items set is empty
\* (removal-only diffs and failed observations included) creates none, and
\* nothing else creates or removes one.
C33_OneChangeRecordPerChange ==
  [][IF runs' # runs /\ last_cycle'.new_sectors # {}
     THEN OneChangeRecord
     ELSE change_logs' = change_logs]_vars

\* C33 amended: the same, except that no record is created when the write
\* of the change record raises.
C33_OneChangeRecordUnlessWriteRaises ==
  [][IF /\ runs' # runs
        /\ last_cycle'.new_sectors # {}
        /\ "log_change" \notin last_cycle'.raised
     THEN OneChangeRecord
     ELSE change_logs' = change_logs]_vars

\* The first target lost its only sector (a removal-only diff, no record);
\* the second target has new items and left the only record.
C33_Witness ==
  /\ runs = 2
  /\ faulted = 0
  /\ \E i \in 1..Len(snapshots) : /\ snapshots[i].event_id = "pq23"
                                  /\ snapshots[i].sectors = {}
                                  /\ i > 1
  /\ last_cycle.event_id = "pq24"
  /\ last_cycle.new_sectors = {"sector_b2"}
  /\ Len(change_logs) = 1
  /\ change_logs[1].event_id = "pq24"
  /\ change_logs[1].new_sectors = {"sector_b2"}

\* The position of a call among the calls of the last cycle; 0 when the
\* cycle did not make it.
StepAt(name) ==
  IF \E i \in 1..Len(last_cycle.steps) : last_cycle.steps[i] = name
  THEN CHOOSE i \in 1..Len(last_cycle.steps) : last_cycle.steps[i] = name
  ELSE 0
\* Both calls were made, the first before the second.
Before(first, second) ==
  /\ StepAt(first) > 0
  /\ StepAt(first) < StepAt(second)
\* The two calls are in this order if both were made.
InOrder(first, second) ==
  (StepAt(first) > 0 /\ StepAt(second) > 0) => StepAt(first) < StepAt(second)

\* C34: in a per-target cycle the steps occur in the order: read the
\* previous snapshot and detect, persist the change record (if new items),
\* dispatch the alert (if new items), persist the new snapshot, update the
\* last-checked timestamp; the new snapshot is persisted only after the
\* alert dispatch has returned.
C34_StepsInStatedOrder ==
  (Cycled /\ last_cycle.scraped.kind = "list") =>
    /\ Before("_get_previous_snapshot", "detect_changes")
    /\ Before("detect_changes", "_save_snapshot")
    /\ Before("_save_snapshot", "_update_event_timestamp")
    /\ (last_cycle.new_sectors # {}) =>
         /\ Before("detect_changes", "_log_change")
         /\ Before("_log_change", "send_change_alert")
         /\ Before("send_change_alert", "_save_snapshot")
    /\ InOrder("send_change_alert", "_save_snapshot")

\* What the cycle does instead: the snapshot and the timestamp are written
\* before the change record and before the alert is dispatched.
C34_Witness ==
  /\ Cycled
  /\ last_cycle.new_sectors = {"sector_b2"}
  /\ last_cycle.alert # NoCall
  /\ last_cycle.steps = <<"scrape_event", "_get_previous_snapshot",
                          "detect_changes", "_save_snapshot",
                          "_update_event_timestamp", "_log_change",
                          "send_change_alert">>
  /\ Before("_save_snapshot", "send_change_alert")

\* The order the cycle keeps: read, detect, snapshot, timestamp, and then,
\* if there are new items, change record and alert.
CycleOrderKept ==
  (Cycled /\ last_cycle.scraped.kind = "list") =>
    /\ Before("_get_previous_snapshot", "detect_changes")
    /\ Before("detect_changes", "_save_snapshot")
    /\ Before("_save_snapshot", "_update_event_timestamp")
    /\ (last_cycle.new_sectors # {}) <=> (StepAt("send_change_alert") > 0)
    /\ (last_cycle.new_sectors # {}) =>
         /\ Before("_update_event_timestamp", "_log_change")
         /\ Before("_log_change", "send_change_alert")

\* The target of the cycle a step runs, the set its detector took as the
\* previous one, and the set of the latest snapshot of a target in a table.
TargetOfCycle == EVENTS[last_cycle'.position]
PreviousUsed ==
  last_cycle'.change_info.removed_sectors \cup
  last_cycle'.change_info.unchanged_sectors
LatestStored(table, target) ==
  LET rows == {i \in 1..Len(table) : table[i].event_id = target} IN
  IF rows = {} THEN {}
  ELSE table[CHOOSE i \in rows : \A j \in rows : j <= i].sectors
LookupRaises == "get_previous" \in last_cycle'.raised

\* C35: in every per-target cycle the previous snapshot is read before the
\* cycle's new snapshot is written: the previous set of the detector is the
\* set of the latest snapshot stored before the cycle (empty when there is
\* none or the lookup raises), never the snapshot the cycle itself writes.
C35_PreviousReadBeforeWrite ==
  [][ObservationSucceeds =>
       /\ PreviousUsed = IF LookupRaises THEN {}
                         ELSE LatestStored(snapshots, TargetOfCycle)
       /\ \E i, j \in 1..Len(last_cycle'.steps) :
            /\ i < j
            /\ last_cycle'.steps[i] = "_get_previous_snapshot"
            /\ last_cycle'.steps[j] = "_save_snapshot"]_vars

\* A cycle of the first target has compared its observation with the stored
\* set, not with the set it wrote itself, which is now the latest one.
C35_Witness ==
  /\ Cycled
  /\ last_cycle.position = 1
  /\ last_cycle.had_snapshot
  /\ last_cycle.scraped = [kind |-> "list", sectors |-> {"sector_b2"}]
  /\ last_cycle.change_info.removed_sectors = {"sector_a1"}
  /\ last_cycle.change_info.new_sectors = {"sector_b2"}
  /\ Len(snapshots) = 2
  /\ snapshots[2].event_id = "pq23"
  /\ snapshots[2].sectors = {"sector_b2"}

\* A step that runs a cycle which stores a change record, the record it
\* stores, and whether the dispatch of that cycle attempted a delivery
\* (simulated ones included).
StoresChangeRecord ==
  /\ runs' # runs
  /\ Len(change_logs') = Len(change_logs) + 1
StoredChangeRecord == change_logs'[Len(change_logs')]
DeliveryAttempted ==
  /\ last_cycle'.alert # NoCall
  /\ last_cycle'.alert.attempted # <<>>

\* C36: the notification flag stored in a change record is true exactly
\* when a delivery was attempted for that change; it is false when the
\* dispatch was stopped by the configuration gate, the deduplication gate
\* or the no-recipients gate.
C36_FlagMeansAttempted ==
  [][StoresChangeRecord =>
       (StoredChangeRecord.sms_sent <=> DeliveryAttempted)]_vars

\* A change record says that a notification was sent while the dispatch of
\* its cycle stopped at the configuration gate and attempted nothing.
C36_Witness ==
  /\ Cycled
  /\ ~configured
  /\ ~dry_run
  /\ last_cycle.new_sectors # {}
  /\ last_cycle.alert # NoCall
  /\ last_cycle.alert.attempted = <<>>
  /\ last_cycle.alert.result.success = FALSE
  /\ change_logs # <<>>
  /\ change_logs[Len(change_logs)].event_id = last_cycle.alert.event_id
  /\ change_logs[Len(change_logs)].timestamp = last_cycle.alert.time
  /\ change_logs[Len(change_logs)].sms_sent = TRUE

\* What the stored flag is: the negation of the dry-run setting.
ChangeRecordFlagIsNotDryRun ==
  [][StoresChangeRecord => (StoredChangeRecord.sms_sent <=> ~dry_run)]_vars

\* The identifiers the target of the cycle had in its latest snapshot before
\* the cycle: those an earlier cycle has already seen available.
SeenBefore == LatestStored(snapshots, TargetOfCycle)
\* The cycle reports none of them as new, and dispatches no alert when it
\* observes nothing else.
NotReportedAgain ==
  /\ last_cycle'.new_sectors \cap SeenBefore = {}
  /\ (last_cycle'.scraped.sectors \subseteq SeenBefore) =>
       last_cycle'.alert = NoCall
SnapshotWriteRaises == "save_snapshot" \in last_cycle'.raised

DryRunBatch ==
  /\ simulated' # simulated
  /\ dry_run
  /\ last_alert'.attempted # <<>>
AppendedRows == SubSeq(sms_logs', Len(sms_logs) + 1, Len(sms_logs'))
\* One successful row with the alert text for every simulated delivery.
DryRunRowsLogged ==
  /\ Len(AppendedRows) = Len(last_alert'.attempted)
  /\ \A i \in 1..Len(AppendedRows) :
        /\ AppendedRows[i].phone = last_alert'.attempted[i].phone
        /\ AppendedRows[i].success = TRUE
        /\ AppendedRows[i].message = "Hay cambios en la plataforma"
        /\ AppendedRows[i].timestamp = clock
\* A step that calls send_change_alert for real (transport configured, no
\* dry run) when the call before it was a dry-run batch less than the
\* deduplication window ago.
RealSendAfterDryRunBatch ==
  /\ simulated' # simulated
  /\ ~dry_run
  /\ configured
  /\ last_alert # NoCall
  /\ last_alert.dry
  /\ last_alert.attempted # <<>>
  /\ clock - last_alert.time < 5
SkippedAsDuplicate ==
  /\ last_alert'.result =
       [success |-> TRUE, skipped |-> TRUE, reason |-> "deduplication"]
  /\ last_alert'.attempted = <<>>
  /\ sms_logs' = sms_logs
\* The rows of the dry-run batch that reached the log, and the faults of the
\* two calls.
DryRunRowsKept ==
  \E i \in (last_alert.log_len + 1)..Len(sms_logs) :
     /\ sms_logs[i].success
     /\ sms_logs[i].message = "Hay cambios en la plataforma"
LogWriteRaises ==
  \E i \in 1..Len(last_alert'.attempted) :
     last_alert'.attempted[i].phone \in last_alert'.raised
DedupLookupRaises == "dedup" \in last_alert'.raised

\* C38 as stated: a dry-run batch over at least one active recipient appends
\* success=true log rows with the alert text, so a real send_change_alert
\* issued within the deduplication window after it is skipped with reason
\* "deduplication" and delivers nothing.
C38_DryRunBlocksRealSend ==
  [][/\ DryRunBatch => DryRunRowsLogged
     /\ RealSendAfterDryRunBatch => SkippedAsDuplicate]_vars

\* C38 amended: ... one row per simulated delivery whose log write does not
\* raise; the real send is skipped when at least one of these rows was
\* written and its own deduplication lookup does not raise.
C38_DryRunBlocksRealSendUnlessDatabaseRaises ==
  [][/\ (DryRunBatch /\ ~LogWriteRaises) => DryRunRowsLogged
     /\ (RealSendAfterDryRunBatch /\ DryRunRowsKept /\ ~DedupLookupRaises)
          => SkippedAsDuplicate]_vars

\* A real send with an active recipient has just been skipped as a
\* duplicate of the dry-run batch made before it.
C38_Witness ==
  /\ last_alert # NoCall
  /\ ~last_alert.dry
  /\ last_alert.configured
  /\ last_alert.registered # <<>>
  /\ last_alert.result = [success |-> TRUE, skipped |-> TRUE,
                          reason |-> "deduplication"]
  /\ last_alert.attempted = <<>>
  /\ last_alert.prev # NoCall
  /\ last_alert.prev.dry
  /\ last_alert.prev.attempts > 0
  /\ last_alert.time - last_alert.prev.time < 5
  /\ sms_logs # <<>>
  /\ \A i \in 1..Len(sms_logs) : sms_logs[i].error_message = "None"
  /\ simulated = 2
  /\ ~dry_run


(* ------------------------------------------------------------------ *)
(* The sms_sent field of a cycle result (checked under Spec)            *)
(* ------------------------------------------------------------------ *)
\* The dispatch of the last cycle: whether it was made, whether it ended at
\* the deduplication or the no-recipients gate, and whether it made
\* deliveries of which none succeeded.
Dispatched == last_cycle.alert # NoCall
SkippedByGate ==
  /\ Dispatched
  /\ Get(last_cycle.alert.result, "skipped", FALSE)
  /\ Get(last_cycle.alert.result, "reason", "None") \in
       {"deduplication", "no_phones"}
EveryDeliveryFailed ==
  /\ Dispatched
  /\ last_cycle.alert.attempted # <<>>
  /\ \A i \in 1..Len(last_cycle.alert.attempted) :
        last_cycle.alert.attempted[i].outcome \in {"twilio", "error"}

\* C39: the sms_sent field of a per-target cycle result equals the success
\* flag returned by the dispatcher: it is true when the alert was skipped by
\* deduplication or for lack of recipients and when every delivery failed,
\* and false only when no alert was warranted or the transport is not
\* configured.
C39_SmsSentIsDispatcherSuccess ==
  Cycled =>
    /\ Dispatched => (last_cycle.sms_sent <=> last_cycle.alert.result.success)
    /\ SkippedByGate => last_cycle.sms_sent
    /\ EveryDeliveryFailed => last_cycle.sms_sent
    /\ ~last_cycle.sms_sent =>
         \/ ~Dispatched /\ last_cycle.new_sectors = {}
         \/ Dispatched /\ ~last_cycle.alert.configured

\* The only delivery of the alert failed and the cycle result says that the
\* message was sent.
C39_Witness ==
  /\ Cycled
  /\ EveryDeliveryFailed
  /\ last_cycle.alert.result.failed_count = Len(last_cycle.alert.attempted)
  /\ last_cycle.alert.result.sent_count = 0
  /\ last_cycle.sms_sent = TRUE
  /\ last_cycle.success = TRUE


(* ------------------------------------------------------------------ *)
(* A failed lookup of the stored snapshot (checked under SpecResumed)   *)
(* ------------------------------------------------------------------ *)
\* C40: if reading the latest stored snapshot of a target fails, the
\* previous set is taken to be empty and the cycle continues: every
\* currently available identifier is reported as new and the alert dispatch
\* is invoked, even when those identifiers were already in the stored
\* snapshot.
C40_FailedLookupReportsEverythingNew ==
  [][(ObservationSucceeds /\ LookupRaises) =>
       /\ PreviousUsed = {}
       /\ last_cycle'.change_info.total_previous = 0
       /\ last_cycle'.new_sectors = last_cycle'.scraped.sectors
       /\ last_cycle'.success
       /\ last_cycle'.error = "None"
       /\ (last_cycle'.scraped.sectors # {}) =>
            /\ last_cycle'.alert # NoCall
            /\ last_cycle'.alert.event_id = TargetOfCycle
            /\ last_cycle'.alert.new_sectors = last_cycle'.scraped.sectors
            /\ last_alert' = last_cycle'.alert]_vars

\* The stored identifier is observed again, the lookup raises, and the
\* identifier is reported as new and alerted for a second time.
C40_Witness ==
  /\ Cycled
  /\ last_cycle.position = 1
  /\ last_cycle.had_snapshot
  /\ snapshots[1] = [event_id |-> "pq23", sectors |-> {"sector_a1"},
                     timestamp |-> 0]
  /\ last_cycle.raised = {"get_previous"}
  /\ last_cycle.scraped = [kind |-> "list", sectors |-> {"sector_a1"}]
  /\ last_cycle.new_sectors = {"sector_a1"}
  /\ last_cycle.alert # NoCall
  /\ last_cycle.alert.new_sectors = {"sector_a1"}
  /\ Len(last_cycle.alert.attempted) = 1
  /\ last_cycle.alert.attempted[1].outcome = "ok"


(* ------------------------------------------------------------------ *)
(* Shutdown (checked under SpecShutdown)                                *)
(* ------------------------------------------------------------------ *)
\* The last cycle was cut by the signal, and the calls it had made by then.
Interrupted == Cycled /\ Get(last_cycle, "interrupted", FALSE)
SequenceBegun ==
  \E i \in 1..Len(last_cycle.steps) :
     last_cycle.steps[i] = "_get_previous_snapshot"
\* The calls of the read-detect-persist-dispatch sequence of a cycle with
\* this diff.
SequenceOf(change_info) ==
  <<"_get_previous_snapshot", "detect_changes", "_save_snapshot",
    "_update_event_timestamp">> \o
  (IF change_info # NoChange /\ change_info.new_sectors # {}
   THEN <<"_log_change", "send_change_alert">> ELSE <<>>)
SequenceCompleted ==
  SubSeq(last_cycle.steps, 2, Len(last_cycle.steps)) =
    SequenceOf(last_cycle.change_info)

\* C32: after a shutdown signal no new cycle is started, and a cycle that
\* is in flight when the signal arrives either runs to completion or stops
\* only at a boundary between targets, never in the middle of one target's
\* read-detect-persist-dispatch sequence.
C32_ShutdownAtTargetBoundary ==
  /\ [][~running => (triggers' = triggers /\ instances' = instances /\
                     runs' = runs)]_vars
  /\ [][(running /\ ~running') => instances' = <<>>]_vars
  /\ [](Interrupted => (~SequenceBegun \/ SequenceCompleted))

\* The signal arrived after the snapshot with a new sector was stored and
\* before the change record and the alert: the service is stopped, the
\* sector is stored as seen, and nothing was recorded or sent for it.
C32_Witness ==
  /\ Interrupted
  /\ ~running
  /\ instances = <<>>
  /\ last_cycle.position = 1
  /\ last_cycle.scraped.sectors = {"sector_a1", "sector_b2"}
  /\ last_cycle.steps = <<"scrape_event", "_get_previous_snapshot",
                          "detect_changes", "_save_snapshot">>
  /\ last_cycle.change_info.new_sectors = {"sector_b2"}
  /\ Len(snapshots) = 2
  /\ snapshots[2].sectors = {"sector_a1", "sector_b2"}
  /\ change_logs = <<>>
  /\ sms_logs = <<>>
  /\ last_alert = NoCall

\* The first part of C32 alone: a stopped scheduler starts no cycle, and the
\* signal leaves no cycle running.
NoCycleStartedAfterShutdown ==
  /\ [][~running => (triggers' = triggers /\ instances' = instances /\
                     runs' = runs)]_vars
  /\ [][(running /\ ~running') => instances' = <<>>]_vars

====
